---- MODULE Spec2Model ----
(***************************************************************************)
(* Plugin orchestration core of gorgo: the Plugin Manager's registry, its  *)
(* installation order (getSortedPlugins), the lifecycle driving            *)
(* (InitializePlugins / StartPlugins / StopPlugins), the Event Bus and the *)
(* dependency Container.                                                   *)
(***************************************************************************)
EXTENDS Integers, Sequences, FiniteSets, TLC

(***************************************************************************)
(* Bounds of the model and program constants.                              *)
(***************************************************************************)
\* Longest Dependencies list of a plugin the model registers.
MaxDeps == 1

\* Most calls of one Manager operation that return an error when made.
MaxFaults == 1

\* Longest handler list of an event name the model lets the bus grow to.
MaxHandlers == 1

\* PluginPriority constants (const block of the plugin system).
PriorityLow == 25
PriorityNormal == 50
PriorityHighest == 100

\* Plugin names the model registers.
Names == {"a", "b", "c"}

\* Threads calling into the Event Bus.
Threads == {"t1", "t2"}

\* Priorities the model registers plugins with.
Priorities == {PriorityLow, PriorityNormal, PriorityHighest}

(***************************************************************************)
(* State.                                                                  *)
(***************************************************************************)
VARIABLES
    plugins,        \* PluginManager.plugins: name -> plugin (its metadata)
    pstate,         \* BasePlugin.state of the plugin registered under a name
    services,       \* Container.services: service name -> instance
    subscribers,    \* EventBus.subscribers: event name -> handlers, in order
                    \* (under SpecBus, where threads share the bus: the
                    \* slice [ptr, len, cap] holding them)
    op,             \* the Manager operation that ran last, with its argument
    err,            \* the error that operation returned, Nil when none
    sortedPlugins,  \* the slice the last getSortedPlugins call returned
    calls,          \* the calls the last operation made on plugins and
                    \* handlers, in order, each with its outcome
    result,         \* the value that operation returned besides the error
    registers,      \* the Register calls callers made on the Container
                    \* themselves (SpecContainer), in order
    arrays,         \* the backing arrays of the handler slices, by pointer
    mu,             \* EventBus.mu: [w: the thread in Lock() or holding the
                    \* write lock, readers: read locks held, by thread]
    stack,          \* thread -> its frames inside the bus, innermost last
    pubs,           \* the Publish calls made so far, each with what it did
    subscribes      \* the Subscribe calls made so far

\* The state of the bus as concurrent threads see it.
busVars == <<arrays, mu, stack, pubs, subscribes>>

\* The state of the Manager and the Container.
managerVars ==
    <<plugins, pstate, services, op, err, sortedPlugins, calls, result,
      registers>>

vars == <<plugins, pstate, services, subscribers, op, err, sortedPlugins, calls,
          result, registers, arrays, mu, stack, pubs, subscribes>>

\* The nil error.
Nil == <<"nil">>

(***************************************************************************)
(* Sequences helpers.                                                      *)
(***************************************************************************)
\* All sequences without repetition over the set S of length at most n.
RECURSIVE DistinctSeqs(_, _)
DistinctSeqs(S, n) ==
    IF n = 0 THEN {<<>>}
    ELSE LET shorter == DistinctSeqs(S, n - 1)
         IN  shorter \cup
             {Append(s, x) : <<s, x>> \in
                 {<<s, x>> \in shorter \X S : \A i \in 1..Len(s) : s[i] # x}}

\* Every order in which a Go map with key set S can be ranged over.
IterationOrders(S) ==
    {s \in DistinctSeqs(S, Cardinality(S)) : Len(s) = Cardinality(S)}

Swap(s, i, j) == [s EXCEPT ![i] = s[j], ![j] = s[i]]

(***************************************************************************)
(* Plugins: what a plugin instance's GetMetadata() returns.                *)
(***************************************************************************)
\* The model registers no plugin that names itself as a dependency.
PluginUniverse ==
    {p \in [name : Names, priority : Priorities, deps : DistinctSeqs(Names, MaxDeps)] :
        \A d \in 1..Len(p.deps) : p.deps[d] # p.name}

NewPluginManager == [n \in {} |-> n]

\* PluginState values a BasePlugin takes.
StateUninitialized == "Uninitialized"
StateInitialized == "Initialized"
StateRunning == "Running"
StateStopped == "Stopped"

NewContainer == [n \in {} |-> n]

NewEventBus == [e \in {} |-> <<>>]

(***************************************************************************)
(* getSortedPlugins: sort.Slice with the priority/dependency comparison.   *)
(***************************************************************************)
\* Less with the priorities compared the wrong way round.
LessAscending(pi, pj) ==
    IF pi.priority # pj.priority
    THEN pi.priority < pj.priority
    ELSE \E d \in 1..Len(pj.deps) : pj.deps[d] = pi.name

\* Less without the look at the dependencies.
LessPriorityOnly(pi, pj) ==
    IF pi.priority # pj.priority
    THEN pi.priority > pj.priority
    ELSE FALSE

\* The less function handed to sort.Slice: pi sorts before pj.
Less(pi, pj) ==
    IF pi.priority # pj.priority
    THEN pi.priority > pj.priority
    ELSE \E d \in 1..Len(pj.deps) : pj.deps[d] = pi.name

\* sort.Slice on a slice of at most 12 elements is an insertion sort:
\* for i := 1; i < n; i++ { for j := i; j > 0 && less(j, j-1); j-- { swap } }
RECURSIVE SinkDown(_, _)
SinkDown(s, j) ==
    IF j > 1 /\ Less(s[j], s[j - 1])
    THEN SinkDown(Swap(s, j, j - 1), j - 1)
    ELSE s

RECURSIVE InsertionSort(_, _)
InsertionSort(s, i) ==
    IF i > Len(s) THEN s ELSE InsertionSort(SinkDown(s, i), i + 1)

SortSlice(s) == InsertionSort(s, 2)

\* getSortedPlugins for the registry reg when the map is ranged over in the
\* order iter (a sequence of its keys).
getSortedPlugins(reg, iter) ==
    SortSlice([i \in 1..Len(iter) |-> reg[iter[i]]])

(***************************************************************************)
(* RegisterPlugin.                                                         *)
(***************************************************************************)
\* MissingDeps of a RegisterPlugin that does not check the dependencies.
MissingDepsUnchecked(reg, p) == {}

\* Positions of the dependencies of p that are not keys of the registry.
MissingDeps(reg, p) == {d \in 1..Len(p.deps) : p.deps[d] \notin DOMAIN reg}

FirstMissing(reg, p) ==
    p.deps[CHOOSE d \in MissingDeps(reg, p) :
               \A e \in MissingDeps(reg, p) : d <= e]

MissingDependency(dep, name) == <<"dependency not found for plugin", dep, name>>

\* A store that keeps the plugin already registered under the name.
PutIfAbsent(reg, p) ==
    [n \in DOMAIN reg \cup {p.name} |-> IF n \in DOMAIN reg THEN reg[n] ELSE p]

\* pm.plugins[metadata.Name] = plugin
Put(reg, p) == [n \in DOMAIN reg \cup {p.name} |-> IF n = p.name THEN p ELSE reg[n]]

\* The plugin handed to RegisterPlugin is a newly constructed one
\* (NewBasePlugin: StateUninitialized).
RegisterPlugin(p) ==
    /\ op' = <<"RegisterPlugin", p>>
    /\ calls' = <<>>
    /\ result' = <<>>
    /\ UNCHANGED <<services, subscribers>>
    /\ UNCHANGED <<registers, busVars>>
    /\ IF MissingDeps(plugins, p) # {}
       THEN /\ err' = MissingDependency(FirstMissing(plugins, p), p.name)
            /\ UNCHANGED <<plugins, pstate, sortedPlugins>>
       ELSE /\ plugins' = Put(plugins, p)
            /\ pstate' = [n \in DOMAIN plugins \cup {p.name} |->
                             IF n = p.name THEN StateUninitialized ELSE pstate[n]]
            /\ err' = Nil
            /\ sortedPlugins' = <<>>

\* A caller ranging over the registry in some order and sorting it.
SortPlugins ==
    \E iter \in IterationOrders(DOMAIN plugins) :
        /\ op' = <<"getSortedPlugins", iter>>
        /\ err' = Nil
        /\ sortedPlugins' = getSortedPlugins(plugins, iter)
        /\ calls' = <<>>
        /\ result' = <<>>
        /\ UNCHANGED <<plugins, pstate, services, subscribers>>
        /\ UNCHANGED <<registers, busVars>>

Init ==
    /\ plugins = NewPluginManager
    /\ pstate = [n \in {} |-> n]
    /\ services = NewContainer
    /\ subscribers = NewEventBus
    /\ op = <<"NewPluginManager">>
    /\ err = Nil
    /\ sortedPlugins = <<>>
    /\ calls = <<>>
    /\ result = <<>>
    /\ registers = <<>>
    /\ arrays = <<>>
    /\ mu = [w |-> "", readers |-> [t \in Threads |-> 0]]
    /\ stack = [t \in Threads |-> <<>>]
    /\ pubs = <<>>
    /\ subscribes = <<>>

Register == \E p \in PluginUniverse : RegisterPlugin(p)

NextSort == Register \/ SortPlugins

SpecSort == Init /\ [][NextSort]_vars

(***************************************************************************)
(* The plugins the lifecycle model installs: three plugin types, one per   *)
(* name, each with its optional capability interfaces.                     *)
(***************************************************************************)
\* Plugins implementing ConfigurablePlugin.
ConfigurablePlugins == {"a"}

\* Plugins implementing LifecycleHooks.
HookedPlugins == {"a", "b"}

\* GetServices() of the plugins implementing ServiceProvider.
GetServices ==
    [a |-> [db |-> <<"a", "db">>],
     b |-> [db |-> <<"b", "db">>, cache |-> <<"b", "cache">>]]

\* GetEventSubscriptions() of the plugins implementing EventSubscriber: the
\* handler of plugin n for event e is <<n, e>>.
GetEventSubscriptions ==
    [a |-> {"plugin.started"},
     b |-> {"plugin.stopped"}]

\* The Dependencies each plugin type declares.
DeclaredDeps == [a |-> <<>>, b |-> <<>>, c |-> <<"b">>]

\* The priorities each plugin type is installed with.
DeclaredPriorities ==
    [a |-> {PriorityNormal}, b |-> {PriorityNormal},
     c |-> {PriorityNormal, PriorityHighest}]

LifecyclePlugins ==
    {p \in PluginUniverse :
        /\ p.deps = DeclaredDeps[p.name]
        /\ p.priority \in DeclaredPriorities[p.name]}

(***************************************************************************)
(* Calls out of the Manager. A run of an operation threads a record        *)
(*   [pstate, services, subscribers, calls, err]                           *)
(* through the calls it makes; err is what the last call returned. F is    *)
(* the set of calls that return an error if they are made in this run.     *)
(***************************************************************************)
PluginCall(step, n) == [call |-> step, plugin |-> n, event |-> ""]

HandlerCall(h) == [call |-> "handler", plugin |-> h[1], event |-> h[2]]

Logged(c, ok) == [call |-> c.call, plugin |-> c.plugin, event |-> c.event, ok |-> ok]

ErrorOf(c) == <<"error", c.call, c.plugin, c.event>>

\* fmt.Errorf("<phase> failed for plugin <name>: %w", err)
Wrap(phase, n, e) == <<phase, n, e>>

\* A call that, when it fails, leaves the plugin in the state Error.
CallMarkingError(st, step, n, to, F) ==
    LET c == PluginCall(step, n)
    IN  IF c \in F
        THEN [st EXCEPT !.calls = Append(@, Logged(c, FALSE)),
                        !.err = ErrorOf(c),
                        !.pstate = IF to = "" THEN @ ELSE [@ EXCEPT ![n] = "Error"]]
        ELSE [st EXCEPT !.calls = Append(@, Logged(c, TRUE)),
                        !.err = Nil,
                        !.pstate = IF to = "" THEN @ ELSE [@ EXCEPT ![n] = to]]

\* A call on a plugin that changes nothing when it fails and sets the
\* plugin's state to `to` when it succeeds (to = "" for a call that leaves
\* the state alone: ValidateConfig, the hooks).
Call(st, step, n, to, F) ==
    LET c == PluginCall(step, n)
    IN  IF c \in F
        THEN [st EXCEPT !.calls = Append(@, Logged(c, FALSE)),
                        !.err = ErrorOf(c)]
        ELSE [st EXCEPT !.calls = Append(@, Logged(c, TRUE)),
                        !.err = Nil,
                        !.pstate = IF to = "" THEN @ ELSE [@ EXCEPT ![n] = to]]

\* After a call: return the wrapped error to the caller of the run.
Failed(st, phase, n) == [st EXCEPT !.err = Wrap(phase, n, st.err)]

(***************************************************************************)
(* Container (Register) and Event Bus (Subscribe, Publish).                *)
(***************************************************************************)
\* A registration that replaces the map by the entries provided.
ContainerRegisterAllFresh(svc, provided) == provided

\* Container.Register for every entry of the map provided.
ContainerRegisterAll(svc, provided) ==
    [k \in DOMAIN svc \cup DOMAIN provided |->
        IF k \in DOMAIN provided THEN provided[k] ELSE svc[k]]

\* A lookup that also returns the handlers subscribed under the name one
\* level up ("plugin" for "plugin.started").
HandlersOfWithParent(subs, e) ==
    (IF e \in DOMAIN subs THEN subs[e] ELSE <<>>)
        \o (IF e = "plugin.started" /\ "plugin" \in DOMAIN subs
            THEN subs["plugin"] ELSE <<>>)

\* eb.subscribers[eventName]: the nil slice when the name is no key.
HandlersOf(subs, e) == IF e \in DOMAIN subs THEN subs[e] ELSE <<>>

\* EventBus.Subscribe(e, h) for the handler of plugin n for every event of
\* the set events (one handler per event name: the map order is immaterial).
SubscribeAll(subs, n, events) ==
    [e \in DOMAIN subs \cup events |->
        IF e \in events THEN Append(HandlersOf(subs, e), <<n, e>>) ELSE subs[e]]

\* The handler loop of EventBus.Publish over the snapshot handlers.
RECURSIVE RunHandlers(_, _, _, _, _)
RunHandlers(st, e, handlers, i, F) ==
    IF i > Len(handlers) THEN [st EXCEPT !.err = Nil]
    ELSE LET c == HandlerCall(handlers[i])
         IN  IF c \in F
             THEN [st EXCEPT !.calls = Append(@, Logged(c, FALSE)),
                             !.err = <<"event handler error for", e, ErrorOf(c)>>]
             ELSE RunHandlers([st EXCEPT !.calls = Append(@, Logged(c, TRUE))],
                              e, handlers, i + 1, F)

\* EventBus.Publish(ctx, e, {"plugin": n}); the call is logged when it returns.
Publish(st, e, n, F) ==
    LET r == RunHandlers(st, e, HandlersOf(st.subscribers, e), 1, F)
    IN  [r EXCEPT !.calls =
            Append(@, [call |-> "Publish", plugin |-> n, event |-> e,
                       ok |-> (r.err = Nil)])]

(***************************************************************************)
(* InitializePlugins.                                                      *)
(***************************************************************************)
\* Service registration, event subscription and the OnAfterInit hook.
AfterInitialize(st, n, F) ==
    LET s1 == IF n \in DOMAIN GetServices
              THEN [st EXCEPT !.services = ContainerRegisterAll(@, GetServices[n])]
              ELSE st
        s2 == IF n \in DOMAIN GetEventSubscriptions
              THEN [s1 EXCEPT !.subscribers =
                                 SubscribeAll(@, n, GetEventSubscriptions[n])]
              ELSE s1
        s3 == IF n \in HookedPlugins THEN Call(s2, "OnAfterInit", n, "", F) ELSE s2
    IN  IF s3.err # Nil THEN Failed(s3, "OnAfterInit", n) ELSE s3

\* InitializeOne going on after a failed ValidateConfig.
InitializeOneUnvalidated(st, n, F) ==
    LET s1 == IF n \in ConfigurablePlugins
              THEN Call(st, "ValidateConfig", n, "", F) ELSE st
        s2 == IF n \in HookedPlugins
              THEN Call(s1, "OnBeforeInit", n, "", F) ELSE s1
    IN  IF s2.err # Nil THEN Failed(s2, "OnBeforeInit", n)
        ELSE LET s3 == Call(s2, "Initialize", n, StateInitialized, F)
             IN  IF s3.err # Nil THEN Failed(s3, "initialization", n)
                 ELSE AfterInitialize(s3, n, F)

\* InitializeOne registering the services the plugin exports before it
\* calls Initialize.
InitializeOneRegisteringFirst(st, n, F) ==
    LET s0 == IF n \in DOMAIN GetServices
              THEN [st EXCEPT !.services = ContainerRegisterAll(@, GetServices[n])]
              ELSE st
        s1 == IF n \in ConfigurablePlugins
              THEN Call(s0, "ValidateConfig", n, "", F) ELSE s0
    IN  IF s1.err # Nil THEN Failed(s1, "config validation", n)
        ELSE LET s2 == IF n \in HookedPlugins
                       THEN Call(s1, "OnBeforeInit", n, "", F) ELSE s1
             IN  IF s2.err # Nil THEN Failed(s2, "OnBeforeInit", n)
                 ELSE LET s3 == Call(s2, "Initialize", n, StateInitialized, F)
                      IN  IF s3.err # Nil THEN Failed(s3, "initialization", n)
                          ELSE AfterInitialize(s3, n, F)

\* The body of the loop of InitializePlugins for the plugin named n.
InitializeOne(st, n, F) ==
    LET s1 == IF n \in ConfigurablePlugins
              THEN Call(st, "ValidateConfig", n, "", F) ELSE st
    IN  IF s1.err # Nil THEN Failed(s1, "config validation", n)
        ELSE LET s2 == IF n \in HookedPlugins
                       THEN Call(s1, "OnBeforeInit", n, "", F) ELSE s1
             IN  IF s2.err # Nil THEN Failed(s2, "OnBeforeInit", n)
                 ELSE LET s3 == Call(s2, "Initialize", n, StateInitialized, F)
                      IN  IF s3.err # Nil THEN Failed(s3, "initialization", n)
                          ELSE AfterInitialize(s3, n, F)

\* InitializeLoop going on to the next plugin after an error, which it
\* returns at the end.
RECURSIVE InitializeLoopContinuing(_, _, _, _)
InitializeLoopContinuing(st, sorted, i, F) ==
    IF i > Len(sorted) THEN st
    ELSE LET s == InitializeOne(st, sorted[i].name, F)
         IN  IF s.err # Nil
             THEN [InitializeLoopContinuing(s, sorted, i + 1, F) EXCEPT !.err = s.err]
             ELSE InitializeLoopContinuing(s, sorted, i + 1, F)

RECURSIVE InitializeLoop(_, _, _, _)
InitializeLoop(st, sorted, i, F) ==
    IF i > Len(sorted) THEN st
    ELSE LET s == InitializeOne(st, sorted[i].name, F)
         IN  IF s.err # Nil THEN s ELSE InitializeLoop(s, sorted, i + 1, F)

(***************************************************************************)
(* StartPlugins and StopPlugins.                                           *)
(***************************************************************************)
\* AfterPhase publishing the plugin event before it runs the post hook.
AfterPhasePublishingFirst(st, n, hook, e, F) ==
    LET s0 == [Publish(st, e, n, F) EXCEPT !.err = Nil]
        s1 == IF n \in HookedPlugins THEN Call(s0, hook, n, "", F) ELSE s0
    IN  IF s1.err # Nil THEN Failed(s1, hook, n) ELSE s1

\* The post hook of a phase, then the publication of the plugin event,
\* whose result the Manager does not look at.
AfterPhase(st, n, hook, e, F) ==
    LET s1 == IF n \in HookedPlugins THEN Call(st, hook, n, "", F) ELSE st
    IN  IF s1.err # Nil THEN Failed(s1, hook, n)
        ELSE [Publish(s1, e, n, F) EXCEPT !.err = Nil]

\* The body of the loop of StartPlugins for the plugin named n.
StartOne(st, n, F) ==
    LET s1 == IF n \in HookedPlugins
              THEN Call(st, "OnBeforeStart", n, "", F) ELSE st
    IN  IF s1.err # Nil THEN Failed(s1, "OnBeforeStart", n)
        ELSE LET s2 == Call(s1, "Start", n, StateRunning, F)
             IN  IF s2.err # Nil THEN Failed(s2, "start", n)
                 ELSE AfterPhase(s2, n, "OnAfterStart", "plugin.started", F)

\* StartLoop going on to the next plugin after an error, which it returns
\* at the end.
RECURSIVE StartLoopContinuing(_, _, _, _)
StartLoopContinuing(st, sorted, i, F) ==
    IF i > Len(sorted) THEN st
    ELSE LET s == StartOne(st, sorted[i].name, F)
         IN  IF s.err # Nil
             THEN [StartLoopContinuing(s, sorted, i + 1, F) EXCEPT !.err = s.err]
             ELSE StartLoopContinuing(s, sorted, i + 1, F)

RECURSIVE StartLoop(_, _, _, _)
StartLoop(st, sorted, i, F) ==
    IF i > Len(sorted) THEN st
    ELSE LET s == StartOne(st, sorted[i].name, F)
         IN  IF s.err # Nil THEN s ELSE StartLoop(s, sorted, i + 1, F)

\* The body of the loop of StopPlugins for the plugin named n.
StopOne(st, n, F) ==
    LET s1 == IF n \in HookedPlugins
              THEN Call(st, "OnBeforeStop", n, "", F) ELSE st
    IN  IF s1.err # Nil THEN Failed(s1, "OnBeforeStop", n)
        ELSE LET s2 == Call(s1, "Stop", n, StateStopped, F)
             IN  IF s2.err # Nil THEN Failed(s2, "stop", n)
                 ELSE AfterPhase(s2, n, "OnAfterStop", "plugin.stopped", F)

\* StopLoop going on to the next plugin after an error, which it returns at
\* the end.
RECURSIVE StopLoopContinuing(_, _, _, _)
StopLoopContinuing(st, sorted, i, F) ==
    IF i < 1 THEN st
    ELSE LET s == StopOne(st, sorted[i].name, F)
         IN  IF s.err # Nil
             THEN [StopLoopContinuing(s, sorted, i - 1, F) EXCEPT !.err = s.err]
             ELSE StopLoopContinuing(s, sorted, i - 1, F)

\* for i := len(sortedPlugins) - 1; i >= 0; i--
RECURSIVE StopLoop(_, _, _, _)
StopLoop(st, sorted, i, F) ==
    IF i < 1 THEN st
    ELSE LET s == StopOne(st, sorted[i].name, F)
         IN  IF s.err # Nil THEN s ELSE StopLoop(s, sorted, i - 1, F)

(***************************************************************************)
(* The Manager operations as actions. Each ranges the registry map in some *)
(* order and meets some set of failing calls: r is the outcome of the run. *)
(***************************************************************************)
\* The calls a run over the current registry and bus can make: the steps of
\* the phase on the registered plugins that have them, and the handlers
\* subscribed to the event the phase publishes.
PossibleCalls(always, hooks, config, e) ==
    {PluginCall(s, n) : <<s, n>> \in always \X DOMAIN plugins}
        \cup {PluginCall(s, n) : <<s, n>> \in hooks \X (DOMAIN plugins \cap HookedPlugins)}
        \cup {PluginCall(s, n) :
                 <<s, n>> \in config \X (DOMAIN plugins \cap ConfigurablePlugins)}
        \cup {HandlerCall(HandlersOf(subscribers, e)[i]) :
                 i \in 1..Len(HandlersOf(subscribers, e))}

RECURSIVE SubsetsUpTo(_, _)
SubsetsUpTo(S, k) ==
    IF k = 0 THEN {{}}
    ELSE LET smaller == SubsetsUpTo(S, k - 1)
         IN  smaller \cup {F \cup {x} : <<F, x>> \in smaller \X S}

FaultSets(always, hooks, config, e) ==
    SubsetsUpTo(PossibleCalls(always, hooks, config, e), MaxFaults)

\* The slices getSortedPlugins can return for the current registry, one for
\* each order the map can be ranged over in.
SortedOrders ==
    {getSortedPlugins(plugins, iter) : iter \in IterationOrders(DOMAIN plugins)}

Entry == [pstate |-> pstate, services |-> services,
          subscribers |-> subscribers, calls |-> <<>>, err |-> Nil]

Commit(name, sorted, r) ==
    /\ op' = <<name>>
    /\ sortedPlugins' = sorted
    /\ pstate' = r.pstate
    /\ services' = r.services
    /\ subscribers' = r.subscribers
    /\ calls' = r.calls
    /\ err' = r.err
    /\ result' = <<>>
    /\ UNCHANGED plugins
    /\ UNCHANGED <<registers, busVars>>

InitializePlugins ==
    \E sorted \in SortedOrders :
      \E r \in {InitializeLoop(Entry, sorted, 1, F) :
                  F \in FaultSets({"Initialize"}, {"OnBeforeInit", "OnAfterInit"},
                                  {"ValidateConfig"}, "")} :
            /\ \A e \in DOMAIN r.subscribers : Len(r.subscribers[e]) <= MaxHandlers
            /\ Commit("InitializePlugins", sorted, r)

StartPlugins ==
    \E sorted \in SortedOrders :
      \E r \in {StartLoop(Entry, sorted, 1, F) :
                  F \in FaultSets({"Start"}, {"OnBeforeStart", "OnAfterStart"}, {},
                                  "plugin.started")} :
        Commit("StartPlugins", sorted, r)

StopPlugins ==
    \E sorted \in SortedOrders :
      \E r \in {StopLoop(Entry, sorted, Len(sorted), F) :
                  F \in FaultSets({"Stop"}, {"OnBeforeStop", "OnAfterStop"}, {},
                                  "plugin.stopped")} :
        Commit("StopPlugins", sorted, r)

RegisterLifecycle == \E p \in LifecyclePlugins : RegisterPlugin(p)

Next == RegisterLifecycle \/ InitializePlugins \/ StartPlugins \/ StopPlugins

Spec == Init /\ [][Next]_vars

(***************************************************************************)
(* Properties of RegisterPlugin and getSortedPlugins (SpecSort).           *)
(***************************************************************************)
GetPlugin(reg, name) ==
    IF name \in DOMAIN reg THEN <<reg[name], TRUE>> ELSE <<Nil, FALSE>>

\* Positions of the plugin registered under name n in the slice s.
Pos(s, n) == {i \in 1..Len(s) : s[i].name = n}

Registered == {plugins[n] : n \in DOMAIN plugins}

\* C1: RegisterPlugin(p) returns the MissingDependency error naming a missing
\* dependency and p exactly when some name of p's Dependencies is not a key
\* of the registry at the call, and then leaves the registry as it was;
\* otherwise it returns nil and GetPlugin(p.name) returns p afterwards.
C1_RegisterChecksDependencies ==
    [][\A p \in PluginUniverse :
          op' = <<"RegisterPlugin", p>> =>
             IF \E d \in 1..Len(p.deps) : p.deps[d] \notin DOMAIN plugins
             THEN /\ \E d \in 1..Len(p.deps) :
                        /\ p.deps[d] \notin DOMAIN plugins
                        /\ err' = MissingDependency(p.deps[d], p.name)
                  /\ plugins' = plugins
             ELSE /\ err' = Nil
                  /\ GetPlugin(plugins', p.name) = <<p, TRUE>>]_vars

\* A registration has just failed for a missing dependency while an earlier
\* registration of a plugin with a dependency had succeeded.
C1_Witness ==
    /\ op[1] = "RegisterPlugin"
    /\ err # Nil
    /\ \E d \in 1..Len(op[2].deps) : op[2].deps[d] \notin DOMAIN plugins
    /\ \E n \in DOMAIN plugins : Len(plugins[n].deps) > 0

\* C5: getSortedPlugins is deterministic: over the same registry content it
\* returns the same sequence whatever order the registry map is ranged over.
C5_SortDeterministic ==
    op[1] = "getSortedPlugins" =>
        \A iter \in IterationOrders(DOMAIN plugins) :
            getSortedPlugins(plugins, iter) = sortedPlugins

\* C6: in the slice getSortedPlugins returns, of two registered plugins with
\* different priorities the one with the higher priority comes earlier.
C6_PriorityDescending ==
    op[1] = "getSortedPlugins" =>
        \A n, m \in DOMAIN plugins :
            plugins[n].priority > plugins[m].priority =>
                /\ Pos(sortedPlugins, n) # {}
                /\ Pos(sortedPlugins, m) # {}
                /\ \A i \in Pos(sortedPlugins, n), j \in Pos(sortedPlugins, m) :
                       /\ i < j
                       /\ sortedPlugins[i] = plugins[n]
                       /\ sortedPlugins[j] = plugins[m]

\* Three plugins of two priorities were sorted from an iteration order that
\* began with a plugin of the lower priority.
C6_Witness ==
    /\ op[1] = "getSortedPlugins"
    /\ Len(op[2]) = 3
    /\ plugins[op[2][1]].priority < plugins[op[2][3]].priority
    /\ sortedPlugins[1].priority > sortedPlugins[3].priority

DependsOn(b, a) == \E d \in 1..Len(b.deps) : b.deps[d] = a.name

\* C7: in the slice getSortedPlugins returns, whenever plugin B declares
\* plugin A in its Dependencies and both have the same priority, A comes
\* before B (stated here for the pairs where A does not also declare B).
C7_DependencyBeforeDependent ==
    op[1] = "getSortedPlugins" =>
        \A a, b \in Registered :
            /\ a.name # b.name
            /\ a.priority = b.priority
            /\ DependsOn(b, a)
            /\ ~DependsOn(a, b)
            => \A i \in Pos(sortedPlugins, a.name), j \in Pos(sortedPlugins, b.name) :
                   i < j

\* The registry holds exactly a priority-100 plugin hi and two priority-50
\* plugins of which dependent declares dep (and dep does not declare it).
ThreePluginCase(hi, dep, dependent) ==
    /\ DOMAIN plugins = {hi, dep, dependent}
    /\ Cardinality({hi, dep, dependent}) = 3
    /\ plugins[hi].priority = PriorityHighest
    /\ plugins[dep].priority = PriorityNormal
    /\ plugins[dependent].priority = PriorityNormal
    /\ DependsOn(plugins[dependent], plugins[dep])
    /\ ~DependsOn(plugins[dep], plugins[dependent])

\* C8: for exactly three plugins of priorities 100, 50 and 50, one of the
\* priority-50 plugins depending on the other, getSortedPlugins returns the
\* priority-100 plugin, the depended-upon plugin, then its dependent, for
\* each iteration order of the registry map.
C8_ThreePluginOrder ==
    \A hi, dep, dependent \in Names :
        (op[1] = "getSortedPlugins" /\ ThreePluginCase(hi, dep, dependent)) =>
            sortedPlugins = <<plugins[hi], plugins[dep], plugins[dependent]>>

\* The three plugins were sorted from the iteration order dependent, dep, hi.
C8_Witness ==
    \E hi, dep, dependent \in Names :
        /\ op = <<"getSortedPlugins", <<dependent, dep, hi>>>>
        /\ ThreePluginCase(hi, dep, dependent)
        /\ sortedPlugins = <<plugins[hi], plugins[dep], plugins[dependent]>>

(***************************************************************************)
(* Properties of InitializePlugins, StartPlugins and StopPlugins (Spec).   *)
(***************************************************************************)
\* Position of the plugin named n in the slice the last operation sorted.
PosOf(n) == CHOOSE i \in 1..Len(sortedPlugins) : sortedPlugins[i].name = n

\* Entries of the log that are calls of one of the steps on the plugin n.
CallsOn(log, n, steps) ==
    {i \in 1..Len(log) : log[i].plugin = n /\ log[i].call \in steps}

InitSteps == {"ValidateConfig", "OnBeforeInit", "Initialize", "OnAfterInit"}
StartSteps == {"OnBeforeStart", "Start", "OnAfterStart"}
StopSteps == {"OnBeforeStop", "Stop", "OnAfterStop"}

\* Entries of the log where a step of a plugin returned an error.
FailedSteps(log, steps) ==
    {i \in 1..Len(log) : log[i].call \in steps /\ ~log[i].ok}

\* Entries of the log where an event handler returned an error.
FailedHandlers(log) ==
    {i \in 1..Len(log) : log[i].call = "handler" /\ ~log[i].ok}

\* The handler of plugin n is in the handler list of each of its events.
Subscribed(subs, n) ==
    n \in DOMAIN GetEventSubscriptions =>
        \A e \in GetEventSubscriptions[n] :
            \E h \in 1..Len(HandlersOf(subs, e)) : subs[e][h] = <<n, e>>

\* Each service of plugin n is in the container, as n or a plugin between
\* the positions from and to of the sorted slice registered it.
ServicesKept(svc, n, from, to) ==
    n \in DOMAIN GetServices =>
        \A k \in DOMAIN GetServices[n] :
            /\ k \in DOMAIN svc
            /\ \E j \in from..to :
                  /\ sortedPlugins[j].name \in DOMAIN GetServices
                  /\ k \in DOMAIN GetServices[sortedPlugins[j].name]
                  /\ svc[k] = GetServices[sortedPlugins[j].name][k]

\* C2: InitializePlugins is fail-fast with no rollback: when a step fails
\* for the plugin at position k of the sorted order the call returns an
\* error at once, no step of a plugin at a position after k is made, and
\* every plugin before k is Initialized with its services in the Container
\* and its handlers subscribed on the Event Bus.
C2_InitFailFastNoRollback ==
    op = <<"InitializePlugins">> =>
        \A i \in FailedSteps(calls, InitSteps) :
            LET k == PosOf(calls[i].plugin)
            IN  /\ i = Len(calls)
                /\ err # Nil
                /\ \A j \in (k + 1)..Len(sortedPlugins) :
                       CallsOn(calls, sortedPlugins[j].name, InitSteps) = {}
                /\ \A j \in 1..(k - 1) :
                       /\ pstate[sortedPlugins[j].name] = StateInitialized
                       /\ ServicesKept(services, sortedPlugins[j].name, j, k)
                       /\ Subscribed(subscribers, sortedPlugins[j].name)

\* InitializePlugins failed at the second of three plugins, after a plugin
\* with services and a handler.
C2_Witness ==
    /\ op = <<"InitializePlugins">>
    /\ Len(sortedPlugins) = 3
    /\ err # Nil
    /\ calls[Len(calls)].plugin = sortedPlugins[2].name
    /\ ~calls[Len(calls)].ok
    /\ sortedPlugins[1].name \in DOMAIN GetServices
    /\ sortedPlugins[1].name \in DOMAIN GetEventSubscriptions

\* Number of handlers of plugin n in the bus.
HandlerCount(subs, n) ==
    Cardinality(UNION {{<<e, h>> : h \in {h \in 1..Len(subs[e]) : subs[e][h][1] = n}} :
                          e \in DOMAIN subs})

\* C3: when the ValidateConfig of a Configurable plugin returns an error
\* in InitializePlugins, the plugin's OnBeforeInit and Initialize are not
\* called in that call, none of its services or subscriptions is
\* registered, its state stays what it was (Uninitialized for a plugin not
\* initialized before) and InitializePlugins returns an error.
C3_ValidateConfigFailure ==
    [][\A n \in ConfigurablePlugins :
          (/\ op' = <<"InitializePlugins">>
           /\ \E i \in CallsOn(calls', n, {"ValidateConfig"}) : ~calls'[i].ok)
          => /\ CallsOn(calls', n, {"OnBeforeInit", "Initialize", "OnAfterInit"}) = {}
             /\ pstate'[n] = pstate[n]
             /\ HandlerCount(subscribers', n) = HandlerCount(subscribers, n)
             /\ \A k \in DOMAIN GetServices[n] :
                   (k \in DOMAIN services' /\ services'[k] = GetServices[n][k])
                   => (k \in DOMAIN services /\ services[k] = services'[k])
             /\ err' # Nil]_vars

\* InitializePlugins has just met a failing ValidateConfig on a plugin that
\* was never initialized, after it had initialized another plugin.
C3_Witness ==
    /\ op = <<"InitializePlugins">>
    /\ \E n \in ConfigurablePlugins :
          /\ \E i \in CallsOn(calls, n, {"ValidateConfig"}) : ~calls[i].ok
          /\ pstate[n] = StateUninitialized
          /\ HandlerCount(subscribers, n) = 0
          /\ PosOf(n) > 1
          /\ pstate[sortedPlugins[1].name] = StateInitialized

\* The plugins a log records a call of step on, in the order of the calls.
RECURSIVE CalledOn(_, _)
CalledOn(log, step) ==
    IF log = <<>> THEN <<>>
    ELSE IF Head(log).call = step
         THEN <<Head(log).plugin>> \o CalledOn(Tail(log), step)
         ELSE CalledOn(Tail(log), step)

Reverse(s) == [i \in 1..Len(s) |-> s[Len(s) + 1 - i]]

\* C4: for an unchanged registry, a successful StartPlugins followed by a
\* successful StopPlugins calls Stop on the plugins in exactly the reverse
\* of the sequence in which StartPlugins called Start.
C4_StopReversesStart ==
    [][(/\ op = <<"StartPlugins">> /\ err = Nil
        /\ op' = <<"StopPlugins">> /\ err' = Nil
        /\ plugins' = plugins)
       => CalledOn(calls', "Stop") = Reverse(CalledOn(calls, "Start"))]_vars

\* C9: StartPlugins is fail-fast with no rollback: when OnBeforeStart,
\* Start or OnAfterStart fails for the plugin at position k of the sorted
\* order the call returns an error at once, Start is not called on a plugin
\* after k, no plugin.started event is published for the plugin at k, and
\* the plugins before k are Running, Stop not being called on them.
C9_StartFailFastNoRollback ==
    op = <<"StartPlugins">> =>
        \A i \in FailedSteps(calls, StartSteps) :
            LET k == PosOf(calls[i].plugin)
            IN  /\ i = Len(calls)
                /\ err # Nil
                /\ \A j \in (k + 1)..Len(sortedPlugins) :
                       CallsOn(calls, sortedPlugins[j].name, {"Start"}) = {}
                /\ CallsOn(calls, sortedPlugins[k].name, {"Publish"}) = {}
                /\ \A j \in 1..(k - 1) :
                       /\ pstate[sortedPlugins[j].name] = StateRunning
                       /\ CallsOn(calls, sortedPlugins[j].name, {"Start"}) # {}
                       /\ CallsOn(calls, sortedPlugins[j].name, {"Stop"}) = {}

\* StartPlugins failed at the second of three plugins.
C9_Witness ==
    /\ op = <<"StartPlugins">>
    /\ Len(sortedPlugins) = 3
    /\ err # Nil
    /\ calls[Len(calls)].plugin = sortedPlugins[2].name
    /\ ~calls[Len(calls)].ok
    /\ pstate[sortedPlugins[1].name] = StateRunning
    /\ pstate[sortedPlugins[3].name] # StateRunning

\* C10: every error inside StartPlugins or StopPlugins aborts the call and
\* is returned, the error of a handler subscribed to plugin.started or
\* plugin.stopped included: after such a handler error the call returns a
\* non-nil error and makes no call on a later plugin of the iteration.
C10_HandlerErrorAborts ==
    op \in {<<"StartPlugins">>, <<"StopPlugins">>} =>
        \A i \in FailedHandlers(calls) \cup FailedSteps(calls, StartSteps \cup StopSteps) :
            /\ err # Nil
            /\ \A j \in (i + 1)..Len(calls) :
                   calls[j].call \notin StartSteps \cup StopSteps

\* Position of the plugin named n in the slice s.
PosIn(s, n) == CHOOSE i \in 1..Len(s) : s[i].name = n

\* C11: StopPlugins is fail-fast: when OnBeforeStop, Stop or OnAfterStop
\* fails for the plugin at position k of the sorted order, the call returns
\* an error at once, Stop is not called on a plugin that comes later in the
\* reverse iteration (a position before k), which keeps the state it had,
\* and the plugins stopped earlier in the call (after k) are Stopped.
C11_StopFailFast ==
    [][op' = <<"StopPlugins">> =>
          \A i \in FailedSteps(calls', StopSteps) :
              LET k == PosIn(sortedPlugins', calls'[i].plugin)
              IN  /\ i = Len(calls')
                  /\ err' # Nil
                  /\ \A j \in 1..(k - 1) :
                         /\ CallsOn(calls', sortedPlugins'[j].name, StopSteps) = {}
                         /\ pstate'[sortedPlugins'[j].name] = pstate[sortedPlugins'[j].name]
                  /\ \A j \in (k + 1)..Len(sortedPlugins') :
                         /\ CallsOn(calls', sortedPlugins'[j].name, {"Stop"}) # {}
                         /\ pstate'[sortedPlugins'[j].name] = StateStopped]_vars

\* StopPlugins failed at the second of three running plugins: the one it
\* had stopped is Stopped and the one it did not reach is still Running.
C11_Witness ==
    /\ op = <<"StopPlugins">>
    /\ Len(sortedPlugins) = 3
    /\ err # Nil
    /\ calls[Len(calls)].plugin = sortedPlugins[2].name
    /\ ~calls[Len(calls)].ok
    /\ pstate[sortedPlugins[3].name] = StateStopped
    /\ pstate[sortedPlugins[1].name] = StateRunning

(***************************************************************************)
(* The Event Bus under concurrent callers (SpecBus): Subscribe and Publish *)
(* statement by statement, each thread with its stack of frames, handlers  *)
(* that call back into the bus included.                                   *)
(***************************************************************************)
\* Most Subscribe calls and most Publish calls the callers make in all,
\* the calls handlers make counted in.
MaxSubscribes == 2
MaxPublishes == 2

\* Event names the callers use.
Events == {"e"}

\* The handlers the callers subscribe: H1 returns nil, Hbad returns an
\* error, Hsub subscribes H1 to the event it is run for and returns nil,
\* Hpub publishes the event it is run for once more and returns the result.
Handlers == {"H1", "Hbad", "Hsub", "Hpub"}

\* A []EventHandler value: pointer into arrays (0 for nil), len and cap.
NilSlice == [ptr |-> 0, len |-> 0, cap |-> 0]

\* eb.subscribers[eventName]: the zero value for a missing key.
SliceOf(m, e) == IF e \in DOMAIN m THEN m[e] ELSE NilSlice

\* The elements a slice gives access to.
Elements(arr, s) == [i \in 1..s.len |-> arr[s.ptr][i]]

\* Capacity append grows a full slice of func values to (1, 2, 4, 8, ...).
GrowCap(cap) == IF cap = 0 THEN 1 ELSE 2 * cap

\* append(s, h): in place while the capacity lasts, else into a new array
\* the elements are copied to. Gives the arrays and the slice returned.
AppendSlice(arr, s, h) ==
    IF s.len < s.cap
    THEN [arrays |-> [arr EXCEPT ![s.ptr][s.len + 1] = h],
          slice |-> [s EXCEPT !.len = @ + 1]]
    ELSE LET grown == [i \in 1..GrowCap(s.cap) |->
                          IF i <= s.len THEN arr[s.ptr][i]
                          ELSE IF i = s.len + 1 THEN h ELSE Nil]
         IN  [arrays |-> Append(arr, grown),
              slice |-> [ptr |-> Len(arr) + 1, len |-> s.len + 1,
                         cap |-> GrowCap(s.cap)]]

\* eb.subscribers[eventName] = slice
StoreSlice(m, e, slice) ==
    [k \in DOMAIN m \cup {e} |-> IF k = e THEN slice ELSE m[k]]

\* A Lock that does not wait for the readers to leave.
NoReadersUnwaited(m) == TRUE

\* sync.RWMutex. Lock() first takes the writers' mutex and announces the
\* writer, which holds new readers off, then waits for the readers to leave.
NoReaders(m) == \A t \in Threads : m.readers[t] = 0

CanRLock(m) == m.w = ""

RLock(m, t) == [m EXCEPT !.readers[t] = @ + 1]

\* A Publish that keeps the read lock while its handlers run.
RUnlockSkipped(m, t) == m

RUnlock(m, t) == [m EXCEPT !.readers[t] = @ - 1]

\* A Lock that lets a writer in beside another.
WriterFreeAlways(m) == TRUE

\* The writers' mutex is free: no writer is in Lock() or holds the lock.
WriterFree(m) == m.w = ""

\* A frame of a thread: a call of Subscribe or Publish or a running handler,
\* with its locals (hdr: the slice it read, i: the loop index, ret: what
\* the call it made returned) and the index id of its record in subscribes
\* or pubs.
Frame(f, e, h, pc, id) ==
    [f |-> f, e |-> e, h |-> h, pc |-> pc, id |-> id,
     hdr |-> NilSlice, i |-> 1, ret |-> Nil]

Top(stk) == stk[Len(stk)]

Pop(stk) == SubSeq(stk, 1, Len(stk) - 1)

SetTop(stk, fr) == [stk EXCEPT ![Len(stk)] = fr]

\* The innermost call returns v to the frame that made it.
Return(stk, v) ==
    IF Len(stk) = 1 THEN <<>>
    ELSE SetTop(Pop(stk), [Top(Pop(stk)) EXCEPT !.ret = v])

\* The stack stk with a call of Subscribe(e, h) entered, and its record.
EnterSubscribe(stk, e, h) ==
    Append(stk, Frame("Subscribe", e, h, "Lock", Len(subscribes) + 1))

\* at: the position of the list the call stored its handler at, 0 before.
SubscribeRecord(e, h) ==
    [e |-> e, h |-> h, at |-> 0, returned |-> FALSE]

\* The stack stk with a call of Publish(ctx, e, data) entered, and its
\* record: before and seen are the Subscribe calls that had returned when
\* Publish was called and that had stored their handler when it read the
\* list, snapshot is what the list held then, invoked the handlers it
\* called and returned what each returned.
EnterPublish(stk, e) ==
    Append(stk, Frame("Publish", e, "", "RLock", Len(pubs) + 1))

PublishRecord(e) ==
    [e |-> e,
     before |-> {k \in 1..Len(subscribes) : subscribes[k].returned},
     loaded |-> FALSE, seen |-> {}, snapshot |-> <<>>,
     invoked |-> <<>>, returned |-> <<>>, result |-> <<"running">>]

\* A thread outside the bus calls Subscribe.
CallSubscribe(t) ==
    /\ UNCHANGED managerVars
    /\ stack[t] = <<>>
    /\ Len(subscribes) < MaxSubscribes
    /\ \E e \in Events, h \in Handlers :
          /\ stack' = [stack EXCEPT ![t] = EnterSubscribe(@, e, h)]
          /\ subscribes' = Append(subscribes, SubscribeRecord(e, h))
    /\ UNCHANGED <<subscribers, arrays, mu, pubs>>

\* A thread outside the bus calls Publish.
CallPublish(t) ==
    /\ UNCHANGED managerVars
    /\ stack[t] = <<>>
    /\ Len(pubs) < MaxPublishes
    /\ \E e \in Events :
          /\ stack' = [stack EXCEPT ![t] = EnterPublish(@, e)]
          /\ pubs' = Append(pubs, PublishRecord(e))
    /\ UNCHANGED <<subscribers, arrays, mu, subscribes>>

\* The next statement of the Subscribe call thread t is in.
SubscribeStep(t) ==
    /\ UNCHANGED managerVars
    /\ stack[t] # <<>>
    /\ Top(stack[t]).f = "Subscribe"
    /\ LET fr == Top(stack[t])
           goto(pc) == [stack EXCEPT ![t] = SetTop(@, [fr EXCEPT !.pc = pc])]
       IN  \/ /\ fr.pc = "Lock"
              /\ WriterFree(mu)
              /\ mu' = [mu EXCEPT !.w = t]
              /\ stack' = goto("wait")
              /\ UNCHANGED <<subscribers, arrays, pubs, subscribes>>
           \/ /\ fr.pc = "wait"
              /\ NoReaders(mu)
              /\ stack' = goto("load")
              /\ UNCHANGED <<subscribers, arrays, mu, pubs, subscribes>>
           \/ /\ fr.pc = "load"
              /\ stack' = [stack EXCEPT ![t] =
                              SetTop(@, [fr EXCEPT !.pc = "store",
                                                   !.hdr = SliceOf(subscribers, fr.e)])]
              /\ UNCHANGED <<subscribers, arrays, mu, pubs, subscribes>>
           \/ /\ fr.pc = "store"
              /\ LET a == AppendSlice(arrays, fr.hdr, fr.h)
                 IN  /\ arrays' = a.arrays
                     /\ subscribers' = StoreSlice(subscribers, fr.e, a.slice)
                     /\ subscribes' = [subscribes EXCEPT ![fr.id].at = a.slice.len]
              /\ stack' = goto("Unlock")
              /\ UNCHANGED <<mu, pubs>>
           \/ /\ fr.pc = "Unlock"
              /\ mu' = [mu EXCEPT !.w = ""]
              /\ stack' = [stack EXCEPT ![t] = Return(@, Nil)]
              /\ subscribes' = [subscribes EXCEPT ![fr.id].returned = TRUE]
              /\ UNCHANGED <<subscribers, arrays, pubs>>

\* errors.Is(err, target) through the %w of Publish.
RECURSIVE ErrorsIs(_, _)
ErrorsIs(e, target) ==
    \/ e = target
    \/ /\ e[1] = "event handler error for"
       /\ ErrorsIs(e[3], target)

\* fmt.Errorf("event handler error for %s: %w", eventName, err)
HandlerError(e, r) == <<"event handler error for", e, r>>

\* A Publish that goes on with the next handler whatever one returned.
AbortsNever(r) == FALSE

\* if err := handler(event); err != nil { return ... }
Aborts(r) == r # Nil

\* A Publish that ranges over the handler list as it is now.
SnapshotLive(m, fr) == SliceOf(m, fr.e)

\* The slice the loop of Publish ranges over: the local handlers.
Snapshot(m, fr) == fr.hdr

\* A loop that takes the handlers last to first.
HandlerAtReversed(arr, s, i) == arr[s.ptr][s.len + 1 - i]

\* The handler the i-th iteration of the loop calls.
HandlerAt(arr, s, i) == arr[s.ptr][i]

\* A handler called by the Publish whose frame is the top of stk has
\* returned r: Publish returns the wrapped error or goes to the next one.
AfterHandler(t, stk, pb, r) ==
    LET fr == Top(stk)
        pb2 == [pb EXCEPT ![fr.id].returned = Append(@, r)]
    IN  IF Aborts(r)
        THEN /\ stack' = [stack EXCEPT ![t] = Return(stk, HandlerError(fr.e, r))]
             /\ pubs' = [pb2 EXCEPT ![fr.id].result = HandlerError(fr.e, r)]
        ELSE /\ stack' = [stack EXCEPT ![t] = SetTop(stk, [fr EXCEPT !.i = @ + 1])]
             /\ pubs' = pb2

\* The next statement of the Publish call thread t is in.
PublishStep(t) ==
    /\ UNCHANGED managerVars
    /\ stack[t] # <<>>
    /\ Top(stack[t]).f = "Publish"
    /\ LET fr == Top(stack[t])
           goto(pc) == [stack EXCEPT ![t] = SetTop(@, [fr EXCEPT !.pc = pc])]
       IN  \/ /\ fr.pc = "RLock"
              /\ CanRLock(mu)
              /\ mu' = RLock(mu, t)
              /\ stack' = goto("load")
              /\ UNCHANGED <<subscribers, arrays, pubs, subscribes>>
           \/ /\ fr.pc = "load"
              /\ LET hdr == SliceOf(subscribers, fr.e)
                 IN  /\ stack' = [stack EXCEPT ![t] =
                                     SetTop(@, [fr EXCEPT !.pc = "RUnlock", !.hdr = hdr])]
                     /\ pubs' = [pubs EXCEPT
                                   ![fr.id].loaded = TRUE,
                                   ![fr.id].snapshot = Elements(arrays, hdr),
                                   ![fr.id].seen = {k \in 1..Len(subscribes) :
                                                       subscribes[k].at > 0}]
              /\ UNCHANGED <<subscribers, arrays, mu, subscribes>>
           \/ /\ fr.pc = "RUnlock"
              /\ mu' = RUnlock(mu, t)
              /\ stack' = goto("loop")
              /\ UNCHANGED <<subscribers, arrays, pubs, subscribes>>
           \/ /\ fr.pc = "loop"
              /\ fr.i > Snapshot(subscribers, fr).len
              /\ stack' = [stack EXCEPT ![t] = Return(@, Nil)]
              /\ pubs' = [pubs EXCEPT ![fr.id].result = Nil]
              /\ UNCHANGED <<subscribers, arrays, mu, subscribes>>
           \/ /\ fr.pc = "loop"
              /\ fr.i <= Snapshot(subscribers, fr).len
              /\ LET h == HandlerAt(arrays, Snapshot(subscribers, fr), fr.i)
                     pb == [pubs EXCEPT ![fr.id].invoked = Append(@, h)]
                 IN  IF h \in {"Hsub", "Hpub"}
                     THEN /\ stack' = [stack EXCEPT ![t] =
                                          Append(@, Frame("handler", fr.e, h, "body", fr.id))]
                          /\ pubs' = pb
                     ELSE AfterHandler(t, stack[t], pb,
                                       IF h = "Hbad" THEN <<"error", h>> ELSE Nil)
              /\ UNCHANGED <<subscribers, arrays, mu, subscribes>>

\* The next statement of the handler thread t is in (Hsub or Hpub).
HandlerStep(t) ==
    /\ UNCHANGED managerVars
    /\ stack[t] # <<>>
    /\ Top(stack[t]).f = "handler"
    /\ LET fr == Top(stack[t])
           called == SetTop(stack[t], [fr EXCEPT !.pc = "after"])
       IN  \/ /\ fr.pc = "body"
              /\ fr.h = "Hsub"
              /\ Len(subscribes) < MaxSubscribes
              /\ stack' = [stack EXCEPT ![t] = EnterSubscribe(called, fr.e, "H1")]
              /\ subscribes' = Append(subscribes, SubscribeRecord(fr.e, "H1"))
              /\ UNCHANGED <<subscribers, arrays, mu, pubs>>
           \/ /\ fr.pc = "body"
              /\ fr.h = "Hpub"
              /\ Len(pubs) < MaxPublishes
              /\ stack' = [stack EXCEPT ![t] = EnterPublish(called, fr.e)]
              /\ pubs' = Append(pubs, PublishRecord(fr.e))
              /\ UNCHANGED <<subscribers, arrays, mu, subscribes>>
           \/ /\ \/ fr.pc = "after"
                 \/ fr.h = "Hsub" /\ Len(subscribes) >= MaxSubscribes
                 \/ fr.h = "Hpub" /\ Len(pubs) >= MaxPublishes
              /\ AfterHandler(t, Pop(stack[t]), pubs,
                              IF fr.h = "Hpub" THEN fr.ret ELSE Nil)
              /\ UNCHANGED <<subscribers, arrays, mu, subscribes>>

NextBus ==
    \E t \in Threads :
        \/ CallSubscribe(t)
        \/ CallPublish(t)
        \/ SubscribeStep(t)
        \/ PublishStep(t)
        \/ HandlerStep(t)

SpecBus == Init /\ [][NextBus]_vars

(***************************************************************************)
(* Properties of the Event Bus (SpecBus).                                  *)
(***************************************************************************)
IsPrefix(s, u) == Len(s) <= Len(u) /\ \A i \in 1..Len(s) : s[i] = u[i]

Running == <<"running">>

\* The Publish recorded at k has returned.
Finished(k) == pubs[k].result # Running

\* What the handler list of e holds now.
Subscriptions(e) == Elements(arrays, SliceOf(subscribers, e))

\* Thread t is held up at a lock of the bus.
Waiting(t) ==
    /\ stack[t] # <<>>
    /\ \/ Top(stack[t]).pc = "Lock" /\ ~WriterFree(mu)
       \/ Top(stack[t]).pc = "wait" /\ ~NoReaders(mu)
       \/ Top(stack[t]).pc = "RLock" /\ ~CanRLock(mu)

\* Thread t is inside the bus and its next statement can be taken.
Runnable(t) == stack[t] # <<>> /\ ~Waiting(t)

\* C12: when no handler fails, one Publish of e invokes the handlers
\* subscribed to e one at a time, in the order of their Subscribe calls, one
\* invocation per subscription: what it invokes is at every moment a prefix
\* of the list of e as it was when the publish took it, and once it has
\* returned, exactly that list (a handler subscribed twice twice) with the
\* result nil.
C12_PublishInvokesInOrder ==
    \A k \in 1..Len(pubs) :
        LET p == pubs[k]
        IN  /\ IsPrefix(p.invoked, p.snapshot)
            /\ Len(p.returned) <= Len(p.invoked)
            /\ Len(p.invoked) <= Len(p.returned) + 1
            /\ (Finished(k) /\ \A i \in 1..Len(p.returned) : p.returned[i] = Nil)
               => (p.invoked = p.snapshot /\ p.result = Nil)

\* A Publish returned nil after it had invoked two different handlers.
C12_Witness ==
    \E k \in 1..Len(pubs) :
        /\ pubs[k].result = Nil
        /\ Len(pubs[k].snapshot) = 2
        /\ pubs[k].snapshot[1] # pubs[k].snapshot[2]
        /\ pubs[k].invoked = pubs[k].snapshot

\* C13: if the i-th handler in subscription order returns an error during
\* Publish of e, the handlers 1..i-1 have each run once and returned nil, no
\* handler after position i is invoked in that publish, the failed handler
\* is not run again, and Publish returns a non-nil error that names e and
\* wraps the handler's error (errors.Is finds it).
C13_HandlerErrorStopsPublish ==
    \A k \in 1..Len(pubs) :
        LET p == pubs[k]
        IN  \A i \in 1..Len(p.returned) :
                p.returned[i] # Nil =>
                    /\ Len(p.invoked) = i
                    /\ Len(p.returned) = i
                    /\ p.invoked = SubSeq(p.snapshot, 1, i)
                    /\ \A j \in 1..(i - 1) : p.returned[j] = Nil
                    /\ Finished(k)
                    /\ p.result # Nil
                    /\ p.result[2] = p.e
                    /\ ErrorsIs(p.result, p.returned[i])

\* A Publish over two handlers returned the error of the first one.
C13_Witness ==
    \E k \in 1..Len(pubs) :
        /\ Finished(k)
        /\ Len(pubs[k].snapshot) = 2
        /\ pubs[k].invoked = <<"Hbad">>
        /\ pubs[k].result = HandlerError(pubs[k].e, <<"error", "Hbad">>)

\* The Publish at k invokes nothing but what the Subscribe calls that had
\* stored their handler when it took its snapshot had stored.
InvokesOnlySeen(k) ==
    \A i \in 1..Len(pubs[k].invoked) :
        \E s \in pubs[k].seen :
            /\ subscribes[s].e = pubs[k].e
            /\ subscribes[s].at = i
            /\ subscribes[s].h = pubs[k].invoked[i]

\* The Publish at k has invoked the handler of the Subscribe call s.
Invoked(k, s) ==
    /\ subscribes[s].at \in 1..Len(pubs[k].invoked)
    /\ pubs[k].invoked[subscribes[s].at] = subscribes[s].h

C15_NoLockWhileHandlersRun ==
    \A t \in Threads :
        /\ mu.readers[t] > 0 =>
              /\ Top(stack[t]).f = "Publish"
              /\ Top(stack[t]).pc \in {"load", "RUnlock"}
              /\ mu.readers[t] = 1
        /\ Waiting(t) => \E u \in Threads \ {t} : Runnable(u)

\* A handler's Subscribe is about to return, having stored its handler,
\* while the other thread waits for the lock.
C15_Witness ==
    \E t \in Threads :
        /\ Len(stack[t]) = 3
        /\ stack[t][1].f = "Publish"
        /\ stack[t][2].f = "handler"
        /\ Top(stack[t]).f = "Subscribe"
        /\ Top(stack[t]).pc = "Unlock"
        /\ \E u \in Threads \ {t} : Waiting(u)

\* C16: subscriptions are append-only under any interleaving of Subscribe
\* and Publish calls: the list of an event holds exactly the handlers of the
\* Subscribe calls that have stored theirs, each at the position it was
\* stored at for good (no Subscribe lost, none removed or moved), and the
\* list every Publish took is a prefix of the list as it is now.
C16_SubscriptionsAppendOnly ==
    /\ \A s \in 1..Len(subscribes) :
          /\ subscribes[s].returned => subscribes[s].at > 0
          /\ subscribes[s].at > 0 =>
                /\ subscribes[s].at <= Len(Subscriptions(subscribes[s].e))
                /\ Subscriptions(subscribes[s].e)[subscribes[s].at] = subscribes[s].h
                /\ \A r \in 1..Len(subscribes) :
                      (/\ r # s
                       /\ subscribes[r].e = subscribes[s].e
                       /\ subscribes[r].at > 0)
                      => subscribes[r].at # subscribes[s].at
    /\ \A e \in Events :
          Len(Subscriptions(e)) =
              Cardinality({s \in 1..Len(subscribes) :
                              subscribes[s].e = e /\ subscribes[s].at > 0})
    /\ \A k \in 1..Len(pubs) :
          IsPrefix(pubs[k].snapshot, Subscriptions(pubs[k].e))

\* A Subscribe has stored a second handler while a Publish of the event,
\* which took the list with one handler, is running its handlers.
C16_Witness ==
    \E t \in Threads : \E u \in Threads \ {t} :
        /\ stack[t] # <<>>
        /\ Top(stack[t]).f = "Subscribe"
        /\ Top(stack[t]).pc = "Unlock"
        /\ subscribes[Top(stack[t]).id].at = 2
        /\ stack[u] # <<>>
        /\ Top(stack[u]).f = "Publish"
        /\ Top(stack[u]).pc = "loop"
        /\ Len(pubs[Top(stack[u]).id].snapshot) = 1

(***************************************************************************)
(* HotReloadPlugin, beside the lifecycle operations (SpecReload).          *)
(***************************************************************************)
\* Plugins implementing HotReloadable.
HotReloadablePlugins == {"a"}

\* The plugin types the hot-reload model installs.
ReloadPlugins == {p \in LifecyclePlugins : p.name \in {"a", "b"}}

\* The newConfig maps the callers pass.
Configs == {[setting |-> "v1"], [setting |-> "v2"]}

\* fmt.Errorf("plugin %s not found", name)
PluginNotFound(name) == <<"plugin", name, "not found">>

\* fmt.Errorf("plugin %s does not support hot reload", name)
HotReloadUnsupported(name) == <<"plugin", name, "does not support hot reload">>

\* A check that does not look at what CanHotReload() returns.
SupportsHotReloadUnasked(name, can) == name \in HotReloadablePlugins

\* reloadable, ok := plugin.(HotReloadable); ok && reloadable.CanHotReload()
\* where can is what CanHotReload() returns.
SupportsHotReload(name, can) == name \in HotReloadablePlugins /\ can

\* A HotReloadPlugin that wraps the error of OnHotReload.
ReloadResultWrapped(name, r) ==
    IF r = Nil THEN Nil ELSE Wrap("hot reload", name, r)

\* return reloadable.OnHotReload(newConfig)
ReloadResult(name, r) == r

\* The calls of CanHotReload() and OnHotReload(newConfig) on the plugin n,
\* as logged, with what they return.
CanHotReloadCall(n, can) ==
    [call |-> "CanHotReload", plugin |-> n, event |-> "", ok |-> TRUE,
     value |-> can]

OnHotReloadCall(n, newConfig, r) ==
    [call |-> "OnHotReload", plugin |-> n, event |-> "", ok |-> (r = Nil),
     arg |-> newConfig, value |-> r]

\* HotReloadPlugin(name, newConfig) when the plugin's CanHotReload() returns
\* can and its OnHotReload returns reloadError, if they are called: the
\* calls made and the error returned.
HotReloadPlugin(reg, name, newConfig, can, reloadError) ==
    IF name \notin DOMAIN reg
    THEN [calls |-> <<>>, err |-> PluginNotFound(name)]
    ELSE LET asked == IF name \in HotReloadablePlugins
                      THEN <<CanHotReloadCall(name, can)>> ELSE <<>>
         IN  IF SupportsHotReload(name, can)
             THEN [calls |-> Append(asked, OnHotReloadCall(name, newConfig, reloadError)),
                   err |-> ReloadResult(name, reloadError)]
             ELSE [calls |-> asked, err |-> HotReloadUnsupported(name)]

HotReload ==
    \E name \in Names, newConfig \in Configs, can \in BOOLEAN :
      \E reloadError \in {Nil, ErrorOf(PluginCall("OnHotReload", name))} :
        LET r == HotReloadPlugin(plugins, name, newConfig, can, reloadError)
        IN  /\ op' = <<"HotReloadPlugin", name, newConfig>>
            /\ calls' = r.calls
            /\ err' = r.err
            /\ result' = <<>>
            /\ UNCHANGED <<plugins, pstate, services, subscribers, sortedPlugins>>
            /\ UNCHANGED <<registers, busVars>>

RegisterReloadable == \E p \in ReloadPlugins : RegisterPlugin(p)

NextReload ==
    RegisterReloadable \/ InitializePlugins \/ StartPlugins \/ StopPlugins \/ HotReload

SpecReload == Init /\ [][NextReload]_vars

\* The entries of the log that are calls of the step.
CallsOf(log, step) == {i \in 1..Len(log) : log[i].call = step}

\* C17: HotReloadPlugin(name, cfg) returns the PluginNotFound error 'plugin
\* <name> not found' when name is not registered and the HotReloadUnsupported
\* error 'plugin <name> does not support hot reload' when the registered
\* plugin does not implement HotReloadable or its CanHotReload() returns
\* false; in both cases OnHotReload is not invoked.
C17_HotReloadRefused ==
    op[1] = "HotReloadPlugin" =>
        LET name == op[2]
        IN  /\ name \notin DOMAIN plugins =>
                  /\ err = PluginNotFound(name)
                  /\ CallsOf(calls, "OnHotReload") = {}
            /\ (/\ name \in DOMAIN plugins
                /\ \/ name \notin HotReloadablePlugins
                   \/ \E i \in CallsOf(calls, "CanHotReload") : ~calls[i].value) =>
                  /\ err = HotReloadUnsupported(name)
                  /\ CallsOf(calls, "OnHotReload") = {}

\* HotReloadPlugin was refused for a registered plugin that implements
\* HotReloadable and whose CanHotReload() returned false, while a plugin
\* that does not implement it is registered too.
C17_Witness ==
    /\ op[1] = "HotReloadPlugin"
    /\ op[2] \in DOMAIN plugins
    /\ op[2] \in HotReloadablePlugins
    /\ \E i \in CallsOf(calls, "CanHotReload") : ~calls[i].value
    /\ err = HotReloadUnsupported(op[2])
    /\ DOMAIN plugins \ HotReloadablePlugins # {}

\* C18: a HotReloadPlugin call on a registered plugin that implements
\* HotReloadable and whose CanHotReload() returns true invokes OnHotReload
\* exactly once, with the newConfig of the caller, and returns exactly what
\* OnHotReload returned (nil, or its error unwrapped), whatever the state of
\* the plugin; no other operation of the Manager invokes OnHotReload.
C18_HotReloadDelegates ==
    /\ (/\ op[1] = "HotReloadPlugin"
        /\ op[2] \in DOMAIN plugins
        /\ op[2] \in HotReloadablePlugins
        /\ \E i \in CallsOf(calls, "CanHotReload") : calls[i].value) =>
          \E i \in 1..Len(calls) :
              /\ CallsOf(calls, "OnHotReload") = {i}
              /\ calls[i].plugin = op[2]
              /\ calls[i].arg = op[3]
              /\ err = calls[i].value
    /\ op[1] # "HotReloadPlugin" => CallsOf(calls, "OnHotReload") = {}

\* HotReloadPlugin on a Running plugin returned the error of OnHotReload.
C18_Witness ==
    /\ op[1] = "HotReloadPlugin"
    /\ op[2] \in DOMAIN plugins
    /\ pstate[op[2]] = StateRunning
    /\ \E i \in CallsOf(calls, "OnHotReload") :
          /\ calls[i].value # Nil
          /\ err = calls[i].value

(***************************************************************************)
(* GetMiddleware, over the registries RegisterPlugin builds                *)
(* (SpecMiddleware).                                                       *)
(***************************************************************************)
\* GetMiddleware() of the plugins implementing MiddlewareProvider.
GetMiddlewareOf ==
    [a |-> <<"a.first", "a.second">>,
     c |-> <<"c.only">>]

\* A loop that puts each plugin's middleware in front of what it has.
RECURSIVE CollectMiddlewarePrepending(_, _)
CollectMiddlewarePrepending(sorted, i) ==
    IF i > Len(sorted) THEN <<>>
    ELSE CollectMiddlewarePrepending(sorted, i + 1)
             \o (IF sorted[i].name \in DOMAIN GetMiddlewareOf
                 THEN GetMiddlewareOf[sorted[i].name] ELSE <<>>)

\* The loop of GetMiddleware from the plugin at position i of the slice:
\* middleware = append(middleware, provider.GetMiddleware()...)
RECURSIVE CollectMiddleware(_, _)
CollectMiddleware(sorted, i) ==
    IF i > Len(sorted) THEN <<>>
    ELSE (IF sorted[i].name \in DOMAIN GetMiddlewareOf
          THEN GetMiddlewareOf[sorted[i].name] ELSE <<>>)
             \o CollectMiddleware(sorted, i + 1)

GetMiddleware ==
    \E iter \in IterationOrders(DOMAIN plugins) :
        /\ op' = <<"GetMiddleware", iter>>
        /\ sortedPlugins' = getSortedPlugins(plugins, iter)
        /\ result' = CollectMiddleware(getSortedPlugins(plugins, iter), 1)
        /\ err' = Nil
        /\ calls' = <<>>
        /\ UNCHANGED <<plugins, pstate, services, subscribers>>
        /\ UNCHANGED <<registers, busVars>>

NextMiddleware == Register \/ GetMiddleware

SpecMiddleware == Init /\ [][NextMiddleware]_vars

\* The middleware functions of the registered providers, each as the pair
\* of its plugin and its place in that plugin's list.
Provided(reg) ==
    UNION {{<<n, i>> : i \in 1..Len(GetMiddlewareOf[n])} :
              n \in DOMAIN reg \cap DOMAIN GetMiddlewareOf}

\* Places of the middleware function ni in the sequence r.
PlacesOf(r, ni) == {k \in 1..Len(r) : r[k] = GetMiddlewareOf[ni[1]][ni[2]]}

\* C19: GetMiddleware returns the concatenation of the GetMiddleware() lists
\* of exactly the registered plugins implementing MiddlewareProvider, in the
\* order of the slice getSortedPlugins returned to it and keeping each
\* plugin's own order (every such function once, nothing else, a function
\* before another when its plugin comes earlier in the slice or it comes
\* earlier in the same plugin's list); it invokes nothing and changes
\* neither the registry nor the plugins, the Container or the Event Bus.
C19_GetMiddlewareConcatenates ==
    [][op'[1] = "GetMiddleware" =>
          /\ Len(result') = Cardinality(Provided(plugins))
          /\ \A ni \in Provided(plugins) : Cardinality(PlacesOf(result', ni)) = 1
          /\ \A ni, mj \in Provided(plugins) :
                \A k \in PlacesOf(result', ni), l \in PlacesOf(result', mj) :
                    k < l <=>
                        \/ PosIn(sortedPlugins', ni[1]) < PosIn(sortedPlugins', mj[1])
                        \/ ni[1] = mj[1] /\ ni[2] < mj[2]
          /\ Len(sortedPlugins') = Cardinality(DOMAIN plugins)
          /\ \A n \in DOMAIN plugins :
                \E i \in 1..Len(sortedPlugins') : sortedPlugins'[i] = plugins[n]
          /\ calls' = <<>>
          /\ err' = Nil
          /\ plugins' = plugins
          /\ pstate' = pstate
          /\ services' = services
          /\ subscribers' = subscribers]_vars

\* GetMiddleware returned the three functions of two providers, the
\* provider with one function first, with a third plugin that provides none
\* registered.
C19_Witness ==
    /\ op[1] = "GetMiddleware"
    /\ Cardinality(DOMAIN plugins) = 3
    /\ result = <<"c.only", "a.first", "a.second">>

(***************************************************************************)
(* The Container called by itself (SpecContainer).                         *)
(***************************************************************************)
\* Most Register calls the callers make on the Container.
MaxRegisters == 3

\* The names and the instances the callers register.
ServiceNames == {"db", "cache", "mail"}
Instances == {"v1", "v2"}

\* A Register that leaves an entry that is there alone.
ContainerRegisterKeepingFirst(svc, name, instance) ==
    [k \in DOMAIN svc \cup {name} |-> IF k \in DOMAIN svc THEN svc[k] ELSE instance]

\* Container.Register(name, instance): stores instance under name,
\* overwriting any prior entry.
ContainerRegister(svc, name, instance) ==
    [k \in DOMAIN svc \cup {name} |-> IF k = name THEN instance ELSE svc[k]]

\* Container.Get(name): the instance and true, or false for a missing name.
ContainerGet(svc, name) ==
    IF name \in DOMAIN svc THEN <<svc[name], TRUE>> ELSE <<Nil, FALSE>>

RegisterService ==
    /\ Len(registers) < MaxRegisters
    /\ \E name \in ServiceNames, instance \in Instances :
          /\ services' = ContainerRegister(services, name, instance)
          /\ registers' = Append(registers, <<name, instance>>)
          /\ op' = <<"Register", name, instance>>
    /\ result' = <<>>
    /\ err' = Nil
    /\ calls' = <<>>
    /\ UNCHANGED <<plugins, pstate, subscribers, sortedPlugins, busVars>>

GetService ==
    /\ \E name \in ServiceNames :
          /\ op' = <<"Get", name>>
          /\ result' = ContainerGet(services, name)
    /\ err' = Nil
    /\ calls' = <<>>
    /\ UNCHANGED <<plugins, pstate, services, subscribers, sortedPlugins,
                   registers, busVars>>

NextContainer == RegisterService \/ GetService

SpecContainer == Init /\ [][NextContainer]_vars

\* The Register calls made for the name, by their place in registers.
RegistersOf(name) == {k \in 1..Len(registers) : registers[k][1] = name}

\* The instance of the last of them.
LastRegistered(name) ==
    registers[CHOOSE k \in RegistersOf(name) : \A j \in RegistersOf(name) : j <= k][2]

\* C20: the Container is last-write-wins: after any sequence of Register
\* calls, Get(name) returns (v, true) for the instance v of the most recent
\* Register(name, _), and that holds of every name registered, so that a
\* Register leaves the entries under the other names as they were.
C20_LastRegisterWins ==
    /\ (op[1] = "Get" /\ RegistersOf(op[2]) # {}) =>
          result = <<LastRegistered(op[2]), TRUE>>
    /\ \A name \in ServiceNames :
          RegistersOf(name) # {} =>
              ContainerGet(services, name) = <<LastRegistered(name), TRUE>>

\* Get returned the second instance registered under a name, a Register of
\* another name having come between the two.
C20_Witness ==
    \E name \in ServiceNames : \E other \in ServiceNames \ {name} :
        /\ registers = <<<<name, "v1">>, <<other, "v1">>, <<name, "v2">>>>
        /\ op = <<"Get", name>>
        /\ result = <<"v2", TRUE>>

(***************************************************************************)
(* Container lookups: Get and GetTyped beside Register (SpecLookup).       *)
(***************************************************************************)
\* The targets the callers pass to GetTyped: &retrieved, or retrieved
\* itself, which is no pointer.
Targets == {"pointer", "value"}

\* fmt.Errorf("service %s not found", name)
ServiceNotFound(name) == <<"service", name, "not found">>

\* fmt.Errorf("target is not a pointer")
InvalidTarget == <<"target is not a pointer">>

\* A GetTyped that assigns without looking at the kind of its target.
TargetErrorUnchecked(target) == Nil

\* The InvalidTarget condition: the target is not a pointer.
TargetError(target) == IF target = "pointer" THEN Nil ELSE InvalidTarget

\* The NotFound condition: as Get, the name is absent.
LookupError(svc, name) ==
    IF ContainerGet(svc, name)[2] THEN Nil ELSE ServiceNotFound(name)

\* Container.GetTyped(name, target): the error returned and the value the
\* target holds afterwards (Nil when nothing was assigned). The order of
\* the two checks is not fixed by the contract: nameFirst chooses it.
ContainerGetTyped(svc, name, target, nameFirst) ==
    LET checks == IF nameFirst
                  THEN <<LookupError(svc, name), TargetError(target)>>
                  ELSE <<TargetError(target), LookupError(svc, name)>>
        e == IF checks[1] # Nil THEN checks[1] ELSE checks[2]
    IN  [err |-> e,
         assigned |-> IF e = Nil THEN ContainerGet(svc, name)[1] ELSE Nil]

GetTypedService ==
    /\ \E name \in ServiceNames, target \in Targets, nameFirst \in BOOLEAN :
          LET r == ContainerGetTyped(services, name, target, nameFirst)
          IN  /\ op' = <<"GetTyped", name, target>>
              /\ result' = <<r.assigned>>
              /\ err' = r.err
    /\ calls' = <<>>
    /\ UNCHANGED <<plugins, pstate, services, subscribers, sortedPlugins,
                   registers, busVars>>

NextLookup == RegisterService \/ GetService \/ GetTypedService

SpecLookup == Init /\ [][NextLookup]_vars

\* C21: a lookup of an absent name fails and changes nothing: Get returns
\* found = false; GetTyped with a pointer target returns 'service <name>
\* not found'; GetTyped of a present name with a target that is no pointer
\* returns 'target is not a pointer' (for an absent name and such a target
\* it returns one of the two errors); and whenever a lookup fails the
\* Container holds exactly what it held before the call.
C21_AbsentLookupFails ==
    [][/\ (op'[1] = "Get" /\ op'[2] \notin DOMAIN services) =>
              /\ result'[2] = FALSE
              /\ services' = services
       /\ op'[1] = "GetTyped" =>
              /\ (op'[2] \notin DOMAIN services /\ op'[3] = "pointer") =>
                     err' = ServiceNotFound(op'[2])
              /\ (op'[2] \in DOMAIN services /\ op'[3] # "pointer") =>
                     err' = InvalidTarget
              /\ (op'[2] \notin DOMAIN services /\ op'[3] # "pointer") =>
                     err' \in {ServiceNotFound(op'[2]), InvalidTarget}
              /\ err' # Nil =>
                     /\ services' = services
                     /\ result' = <<Nil>>]_vars

\* GetTyped of a missing name with a pointer target failed on a Container
\* that holds two other services.
C21_Witness ==
    /\ op = <<"GetTyped", "mail", "pointer">>
    /\ err = ServiceNotFound("mail")
    /\ DOMAIN services = {"db", "cache"}

(***************************************************************************)
(* The Container under concurrent callers (SpecShared): Register and Get   *)
(* statement by statement, one reader/writer lock around the map. A stored *)
(* instance is an interface value of two words, written and read one word  *)
(* at a time.                                                              *)
(***************************************************************************)
\* Most Register calls the threads make on the Container in all.
MaxSharedRegisters == 2

\* The names the threads register and look up.
SharedNames == {"db", "cache"}

\* The interface value of an instance: its type word and its data word.
Whole(instance) == <<instance, instance>>

\* A word of the nil interface value.
NilWord == "nil"

\* The two words the map holds under a name, nil words for a missing name.
WordsOf(svc, name) ==
    IF ContainerGet(svc, name)[2] THEN ContainerGet(svc, name)[1]
    ELSE <<NilWord, NilWord>>

\* The frame of a call of Register(name, instance) or Get(name): id is the
\* index of a Register in registers, before the Register calls that had
\* returned when a Get was called, val and found what a Get has read.
ContainerFrame(f, name, instance, pc, id) ==
    [f |-> f, name |-> name, instance |-> instance, pc |-> pc, id |-> id,
     before |-> {k \in 1..Len(registers) : registers[k][3]},
     val |-> <<NilWord, NilWord>>, found |-> FALSE]

\* A thread outside the Container calls Register.
CallRegister(t) ==
    /\ stack[t] = <<>>
    /\ Len(registers) < MaxSharedRegisters
    /\ \E name \in SharedNames, instance \in Instances :
          /\ stack' = [stack EXCEPT ![t] =
                <<ContainerFrame("Register", name, instance, "Lock",
                                 Len(registers) + 1)>>]
          /\ registers' = Append(registers, <<name, instance, FALSE>>)
    /\ UNCHANGED <<plugins, pstate, services, subscribers, op, err,
                   sortedPlugins, calls, result, arrays, mu, pubs, subscribes>>

\* A thread outside the Container calls Get.
CallGet(t) ==
    /\ stack[t] = <<>>
    /\ \E name \in SharedNames :
          stack' = [stack EXCEPT ![t] =
                <<ContainerFrame("Get", name, Nil, "RLock", 0)>>]
    /\ UNCHANGED <<plugins, pstate, services, subscribers, op, err,
                   sortedPlugins, calls, result, registers, arrays, mu, pubs,
                   subscribes>>

\* The next statement of the Register call thread t is in:
\* Lock(); services[name] = instance; Unlock().
RegisterStep(t) ==
    /\ stack[t] # <<>>
    /\ Top(stack[t]).f = "Register"
    /\ LET fr == Top(stack[t])
           goto(pc) == [stack EXCEPT ![t] = SetTop(@, [fr EXCEPT !.pc = pc])]
       IN  \/ /\ fr.pc = "Lock"
              /\ WriterFree(mu)
              /\ mu' = [mu EXCEPT !.w = t]
              /\ stack' = goto("wait")
              /\ UNCHANGED <<services, registers>>
           \/ /\ fr.pc = "wait"
              /\ NoReaders(mu)
              /\ stack' = goto("type")
              /\ UNCHANGED <<services, mu, registers>>
           \/ /\ fr.pc = "type"
              /\ services' =
                    ContainerRegister(services, fr.name,
                        <<fr.instance, WordsOf(services, fr.name)[2]>>)
              /\ stack' = goto("data")
              /\ UNCHANGED <<mu, registers>>
           \/ /\ fr.pc = "data"
              /\ services' =
                    ContainerRegister(services, fr.name,
                        <<WordsOf(services, fr.name)[1], fr.instance>>)
              /\ stack' = goto("Unlock")
              /\ UNCHANGED <<mu, registers>>
           \/ /\ fr.pc = "Unlock"
              /\ mu' = [mu EXCEPT !.w = ""]
              /\ stack' = [stack EXCEPT ![t] = <<>>]
              /\ registers' = [registers EXCEPT ![fr.id][3] = TRUE]
              /\ UNCHANGED services
    /\ UNCHANGED <<plugins, pstate, subscribers, op, err, sortedPlugins, calls,
                   result, arrays, pubs, subscribes>>

\* The next statement of the Get call thread t is in:
\* RLock(); service, exists := services[name]; RUnlock(); return.
GetStep(t) ==
    /\ stack[t] # <<>>
    /\ Top(stack[t]).f = "Get"
    /\ LET fr == Top(stack[t])
           set(g) == [stack EXCEPT ![t] = SetTop(@, g)]
           e == <<WordsOf(services, fr.name), ContainerGet(services, fr.name)[2]>>
       IN  \/ /\ fr.pc = "RLock"
              /\ CanRLock(mu)
              /\ mu' = RLock(mu, t)
              /\ stack' = set([fr EXCEPT !.pc = "type"])
              /\ UNCHANGED <<op, result, err>>
           \/ /\ fr.pc = "type"
              /\ stack' = set([fr EXCEPT !.pc = "data", !.found = e[2],
                                         !.val = <<e[1][1], NilWord>>])
              /\ UNCHANGED <<mu, op, result, err>>
           \/ /\ fr.pc = "data"
              /\ stack' = set([fr EXCEPT !.pc = "RUnlock",
                                         !.val = <<fr.val[1], e[1][2]>>])
              /\ UNCHANGED <<mu, op, result, err>>
           \/ /\ fr.pc = "RUnlock"
              /\ mu' = RUnlock(mu, t)
              /\ stack' = [stack EXCEPT ![t] = <<>>]
              /\ op' = <<"Get", fr.name>>
              /\ result' = <<IF fr.found THEN fr.val ELSE Nil, fr.found>>
              /\ err' = Nil
    /\ UNCHANGED <<plugins, pstate, services, subscribers, sortedPlugins, calls,
                   registers, arrays, pubs, subscribes>>

NextShared ==
    \E t \in Threads :
        CallRegister(t) \/ CallGet(t) \/ RegisterStep(t) \/ GetStep(t)

SpecShared == Init /\ [][NextShared]_vars

\* The interface values the Register calls of a name store.
StoredUnder(name) == {Whole(registers[k][2]) : k \in RegistersOf(name)}

\* What a Get of name may return when the Register calls in before had
\* returned as it was called, found and val being what it read.
GetAnswers(name, before, found, val) ==
    /\ found => val \in StoredUnder(name)
    /\ before \cap RegistersOf(name) # {} => found
    /\ \A k \in before :
          RegistersOf(name) = {k} => val = Whole(registers[k][2])

\* C22: whatever the interleaving of Register and Get calls of several
\* threads, a Get returns 'not found' or a whole instance that a Register
\* stored under that name, a Get called after a Register of its name
\* returned finds the name, no Register is lost, and once the Register
\* calls of a name have returned the Container holds under it a whole
\* instance registered under it: the one registered, for a name registered
\* once.
C22_ContainerAtomic ==
    /\ \A t \in Threads :
          (stack[t] # <<>> /\ Top(stack[t]).f = "Get"
                           /\ Top(stack[t]).pc = "RUnlock") =>
              LET fr == Top(stack[t])
              IN  GetAnswers(fr.name, fr.before, fr.found, fr.val)
    /\ op[1] = "Get" =>
          \/ result = <<Nil, FALSE>>
          \/ result[2] /\ result[1] \in StoredUnder(op[2])
    /\ \A name \in SharedNames :
          (RegistersOf(name) # {} /\ \A k \in RegistersOf(name) : registers[k][3]) =>
              /\ ContainerGet(services, name)[2]
              /\ ContainerGet(services, name)[1] \in StoredUnder(name)

\* The threads registered two distinct names, and a Get called while the
\* second Register was in flight has read the instance it stored.
C22_Witness ==
    /\ Len(registers) = 2
    /\ \A name \in SharedNames : Cardinality(RegistersOf(name)) = 1
    /\ \A k \in 1..2 : registers[k][3]
    /\ \E t \in Threads :
          /\ stack[t] # <<>>
          /\ Top(stack[t]).f = "Get"
          /\ Top(stack[t]).pc = "RUnlock"
          /\ Top(stack[t]).before = {1}
          /\ Top(stack[t]).name = registers[2][1]
          /\ Top(stack[t]).found

(***************************************************************************)
(* The Container shared by the Manager and its other callers (SpecKeys):   *)
(* the Manager operations, HotReloadPlugin included, beside Register calls *)
(* made on the Container directly. Get is read off the state.              *)
(***************************************************************************)
\* A caller other than the Manager registers a service of its own: under
\* a name the plugins export too, or under one of its own.
RegisterShared ==
    /\ \E name \in {"db", "mail"} :
          /\ services' = ContainerRegister(services, name, <<"caller", name>>)
          /\ op' = <<"Register", name, <<"caller", name>>>>
    /\ result' = <<>>
    /\ err' = Nil
    /\ calls' = <<>>
    /\ UNCHANGED <<plugins, pstate, subscribers, sortedPlugins, registers,
                   busVars>>

NextKeys == NextReload \/ RegisterShared

SpecKeys == Init /\ [][NextKeys]_vars

\* C23: the set of Container keys never shrinks: whatever operation of the
\* Container or of the Manager runs (InitializePlugins, StartPlugins,
\* StopPlugins, HotReloadPlugin, failed or not), every name Get found before
\* it is found by Get after it; StopPlugins in particular removes no
\* service a plugin exported.
C23_KeysNeverRemoved ==
    [][\A name \in DOMAIN services : ContainerGet(services', name)[2]]_vars

\* StopPlugins has stopped both plugins, and the Container still holds the
\* services they exported beside one a caller registered.
C23_Witness ==
    /\ op = <<"StopPlugins">>
    /\ err = Nil
    /\ DOMAIN plugins = {"a", "b"}
    /\ \A n \in DOMAIN plugins : pstate[n] = StateStopped
    /\ DOMAIN services = {"db", "cache", "mail"}

(***************************************************************************)
(* Properties of the plugin state (Spec).                                  *)
(***************************************************************************)
\* The transitions of the lifecycle state machine.
Transitions ==
    {<<StateUninitialized, StateInitialized>>,
     <<StateInitialized, StateRunning>>,
     <<StateRunning, StateStopped>>}

\* The Manager operations that call Initialize, Start and Stop.
LifecycleOps ==
    {<<"InitializePlugins">>, <<"StartPlugins">>, <<"StopPlugins">>}

\* C24: the state of a plugin changes only along Uninitialized ->
\* Initialized -> Running -> Stopped: every change of state an Initialize,
\* Start or Stop call makes is one of these three transitions, so that Start
\* never takes a plugin that is Uninitialized or Stopped to Running.
C24_OnlyLifecycleTransitions ==
    [][op' \in LifecycleOps =>
          \A n \in DOMAIN pstate :
              pstate'[n] # pstate[n] => <<pstate[n], pstate'[n]>> \in Transitions]_vars

\* The state each mandatory call records when it succeeds.
Recorded ==
    [Initialize |-> StateInitialized, Start |-> StateRunning, Stop |-> StateStopped]

\* C25: only success transitions are recorded: a plugin whose Initialize,
\* Start or Stop returned an error to the Manager has after the Manager
\* call the state it had before it; the Manager writes no state itself: a
\* state changes only by a call of the plugin's Initialize, Start or Stop
\* that succeeded, to the state that call records; and no plugin is ever
\* in a state other than Uninitialized, Initialized, Running and Stopped
\* (not in Error, Initializing, Starting or Stopping).
C25_OnlySuccessRecorded ==
    [][/\ (op' \in LifecycleOps \/ op'[1] = "HotReloadPlugin") =>
             /\ \A i \in FailedSteps(calls', DOMAIN Recorded) :
                    pstate'[calls'[i].plugin] = pstate[calls'[i].plugin]
             /\ \A n \in DOMAIN pstate :
                    pstate'[n] # pstate[n] =>
                        \E i \in 1..Len(calls') :
                            /\ calls'[i].plugin = n
                            /\ calls'[i].call \in DOMAIN Recorded
                            /\ calls'[i].ok
                            /\ pstate'[n] = Recorded[calls'[i].call]
       /\ \A n \in DOMAIN pstate' :
             pstate'[n] \in {StateUninitialized, StateInitialized,
                             StateRunning, StateStopped}]_vars

\* StartPlugins started one plugin and returned the error of the Start of
\* the other, which is still Initialized.
C25_Witness ==
    /\ op = <<"StartPlugins">>
    /\ err # Nil
    /\ Len(sortedPlugins) = 2
    /\ calls[Len(calls)].call = "Start"
    /\ ~calls[Len(calls)].ok
    /\ calls[Len(calls)].plugin = sortedPlugins[2].name
    /\ pstate[sortedPlugins[1].name] = StateRunning
    /\ pstate[sortedPlugins[2].name] = StateInitialized

(***************************************************************************)
(* Properties of the service registration of InitializePlugins (SpecKeys). *)
(***************************************************************************)
\* The positions of the slice sorted of the plugins that export a service
\* under name and whose Initialize the log shows to have returned nil.
ExportedBy(sorted, log, name) ==
    {j \in 1..Len(sorted) :
        /\ sorted[j].name \in DOMAIN GetServices
        /\ name \in DOMAIN GetServices[sorted[j].name]
        /\ \E i \in CallsOn(log, sorted[j].name, {"Initialize"}) : log[i].ok}

\* The greatest number of a non-empty set of numbers.
Last(S) == CHOOSE k \in S : \A j \in S : j <= k

\* C26: InitializePlugins registers the entries of a ServiceProvider's
\* GetServices() only after the plugin's Initialize returned nil, and then
\* all of them, overwriting: after the call the Container holds under each
\* name the instance exported by the last plugin, in the installation order
\* the call used, among those exporting the name whose Initialize returned
\* nil in this call, and what it held before the call under a name no such
\* plugin exports; so after a successful call it is the instance of the
\* last exporter in installation order, and a plugin whose Initialize
\* fails registers none of its services.
C26_ServicesAfterInitialize ==
    [][op' = <<"InitializePlugins">> =>
          \A name \in ServiceNames :
              LET by == ExportedBy(sortedPlugins', calls', name)
              IN  IF by = {}
                  THEN ContainerGet(services', name) = ContainerGet(services, name)
                  ELSE ContainerGet(services', name) =
                          <<GetServices[sortedPlugins'[Last(by)].name][name], TRUE>>]_vars

\* InitializePlugins succeeded on b then a, both exporting db: the Container
\* holds a's db and b's cache, beside the mail service a caller registered.
C26_Witness ==
    /\ op = <<"InitializePlugins">>
    /\ err = Nil
    /\ Len(sortedPlugins) = 2
    /\ sortedPlugins[2].name = "a"
    /\ ContainerGet(services, "db") = <<GetServices["a"]["db"], TRUE>>
    /\ ContainerGet(services, "cache") = <<GetServices["b"]["cache"], TRUE>>
    /\ ContainerGet(services, "mail")[2]

(***************************************************************************)
(* Application.Run (SpecApp): the caller installs plugins and subscribes   *)
(* handlers, then calls Run on the main thread t1; Run spawns the server   *)
(* goroutine, here thread t2, and waits for the shutdown signal. op stays  *)
(* <<"Run">> from the call on and calls logs the calls Run has made.       *)
(***************************************************************************)
\* The events the application publishes and its callers subscribe to.
AppEvents == {"app.starting", "app.stopping"}

\* A call Run or waitForShutdown made, as logged, with its outcome.
AppCall(c, e, ok) == [call |-> c, plugin |-> "", event |-> e, ok |-> ok]

\* A frame of Application.Run, of waitForShutdown or of the goroutine.
AppFrame(f, pc) == [f |-> f, pc |-> pc]

\* The runs a Manager operation can make from the current state: the order
\* it sorts the plugins in and the outcome, for each set of failing calls.
InitializeRuns ==
    {<<sorted, InitializeLoop(Entry, sorted, 1, F)>> :
        <<sorted, F>> \in SortedOrders \X
            FaultSets({"Initialize"}, {"OnBeforeInit", "OnAfterInit"},
                      {"ValidateConfig"}, "")}

StartRuns ==
    {<<sorted, StartLoop(Entry, sorted, 1, F)>> :
        <<sorted, F>> \in SortedOrders \X
            FaultSets({"Start"}, {"OnBeforeStart", "OnAfterStart"}, {},
                      "plugin.started")}

StopRuns ==
    {<<sorted, StopLoop(Entry, sorted, Len(sorted), F)>> :
        <<sorted, F>> \in SortedOrders \X
            FaultSets({"Stop"}, {"OnBeforeStop", "OnAfterStop"}, {},
                      "plugin.stopped")}

\* The outcomes of GetEventBus().Publish(ctx, e, data).
PublishRuns(e) == {Publish(Entry, e, "", F) : F \in FaultSets({}, {}, {}, e)}

\* The state of the Manager after the run x of one of its operations.
Ran(x) ==
    /\ sortedPlugins' = x[1]
    /\ pstate' = x[2].pstate
    /\ services' = x[2].services
    /\ subscribers' = x[2].subscribers

\* fmt.Errorf("failed to initialize plugins: %v", err)
InitializeFailed(e) == <<"failed to initialize plugins", e>>

\* fmt.Errorf("failed to start plugins: %v", err)
StartFailed(e) == <<"failed to start plugins", e>>

\* log.Fatalf("Server failed to start: %v", err): the process exits.
Exited == <<"exit", 1>>

\* A Run that goes on after StartPlugins returned an error.
AfterStartPluginsIgnoring(e) == "Publish"

\* Where Run goes after StartPlugins returned e.
AfterStartPlugins(e) == IF e # Nil THEN "return" ELSE "Publish"

\* A waitForShutdown that returns when StopPlugins returned an error.
AfterStopPluginsReturning(e) ==
    IF e # Nil THEN "return" ELSE "ShutdownWithContext"

\* Where waitForShutdown goes after StopPlugins returned e, which it logs.
AfterStopPlugins(e) == "ShutdownWithContext"

\* app.AddPlugin(plugin), before Run: a failed registration is logged.
AddPlugin ==
    /\ op # <<"Run">>
    /\ \E p \in ReloadPlugins : RegisterPlugin(p)

\* app.GetEventBus().Subscribe(e, handler), before Run.
AppSubscribe ==
    /\ op # <<"Run">>
    /\ \E e \in AppEvents :
          /\ Len(HandlersOf(subscribers, e)) < MaxHandlers
          /\ subscribers' = SubscribeAll(subscribers, "app", {e})
          /\ op' = <<"Subscribe", e>>
    /\ err' = Nil
    /\ calls' = <<>>
    /\ result' = <<>>
    /\ UNCHANGED <<plugins, pstate, services, sortedPlugins, registers, busVars>>

\* The main thread calls app.Run().
CallRun ==
    /\ op # <<"Run">>
    /\ stack' = [stack EXCEPT !["t1"] = <<AppFrame("Run", "InitializePlugins")>>]
    /\ op' = <<"Run">>
    /\ err' = Nil
    /\ calls' = <<>>
    /\ result' = <<>>
    /\ UNCHANGED <<plugins, pstate, services, subscribers, sortedPlugins,
                   registers, arrays, mu, pubs, subscribes>>

\* The next statement of Application.Run.
RunStep ==
    /\ stack["t1"] # <<>>
    /\ Top(stack["t1"]).f = "Run"
    /\ LET fr == Top(stack["t1"])
           goto(pc) == [stack EXCEPT !["t1"] = SetTop(@, AppFrame("Run", pc))]
           returned == [stack EXCEPT !["t1"] = <<>>]
       IN  \/ /\ fr.pc = "InitializePlugins"
              /\ \E x \in InitializeRuns :
                    /\ \A e \in DOMAIN x[2].subscribers :
                          Len(x[2].subscribers[e]) <= MaxHandlers
                    /\ Ran(x)
                    /\ calls' = Append(calls, AppCall("InitializePlugins", "",
                                                      x[2].err = Nil))
                    /\ IF x[2].err # Nil
                       THEN /\ err' = InitializeFailed(x[2].err)
                            /\ stack' = returned
                       ELSE /\ err' = Nil
                            /\ stack' = goto("GetMiddleware")
              /\ UNCHANGED result
           \/ /\ fr.pc = "GetMiddleware"
              /\ \E sorted \in SortedOrders :
                    /\ sortedPlugins' = sorted
                    /\ result' = CollectMiddleware(sorted, 1)
              /\ calls' = Append(calls, AppCall("GetMiddleware", "", TRUE))
              /\ stack' = goto("StartPlugins")
              /\ UNCHANGED <<pstate, services, subscribers, err>>
           \/ /\ fr.pc = "StartPlugins"
              /\ \E x \in StartRuns :
                    /\ Ran(x)
                    /\ calls' = Append(calls, AppCall("StartPlugins", "",
                                                      x[2].err = Nil))
                    /\ IF AfterStartPlugins(x[2].err) = "return"
                       THEN /\ err' = StartFailed(x[2].err)
                            /\ stack' = returned
                       ELSE /\ err' = Nil
                            /\ stack' = goto(AfterStartPlugins(x[2].err))
              /\ UNCHANGED result
           \/ /\ fr.pc = "Publish"
              /\ \E r \in PublishRuns("app.starting") :
                    calls' = Append(calls, AppCall("Publish", "app.starting",
                                                   r.err = Nil))
              /\ stack' = goto("go")
              /\ UNCHANGED <<pstate, services, subscribers, sortedPlugins,
                             err, result>>
           \/ /\ fr.pc = "go"
              /\ stack' = [stack EXCEPT
                    !["t1"] = <<AppFrame("Run", "return"),
                                AppFrame("waitForShutdown", "quit")>>,
                    !["t2"] = <<AppFrame("serve", "Publish")>>]
              /\ UNCHANGED <<pstate, services, subscribers, sortedPlugins,
                             calls, err, result>>
           \/ /\ fr.pc = "return"
              /\ stack' = returned
              /\ err' = Nil
              /\ UNCHANGED <<pstate, services, subscribers, sortedPlugins,
                             calls, result>>
    /\ UNCHANGED <<plugins, op, registers, arrays, mu, pubs, subscribes>>

\* The next statement of waitForShutdown; <-quit returns when the signal
\* has come.
WaitStep ==
    /\ stack["t1"] # <<>>
    /\ Top(stack["t1"]).f = "waitForShutdown"
    /\ LET fr == Top(stack["t1"])
           goto(pc) ==
               [stack EXCEPT !["t1"] = SetTop(@, AppFrame("waitForShutdown", pc))]
       IN  \/ /\ fr.pc = "quit"
              /\ calls' = Append(calls, AppCall("signal", "", TRUE))
              /\ stack' = goto("Publish")
              /\ UNCHANGED <<pstate, services, subscribers, sortedPlugins>>
           \/ /\ fr.pc = "Publish"
              /\ \E r \in PublishRuns("app.stopping") :
                    calls' = Append(calls, AppCall("Publish", "app.stopping",
                                                   r.err = Nil))
              /\ stack' = goto("StopPlugins")
              /\ UNCHANGED <<pstate, services, subscribers, sortedPlugins>>
           \/ /\ fr.pc = "StopPlugins"
              /\ \E x \in StopRuns :
                    /\ Ran(x)
                    /\ calls' = Append(calls, AppCall("StopPlugins", "",
                                                      x[2].err = Nil))
                    /\ stack' = IF AfterStopPlugins(x[2].err) = "return"
                                THEN [stack EXCEPT !["t1"] = Pop(@)]
                                ELSE goto(AfterStopPlugins(x[2].err))
           \/ /\ fr.pc = "ShutdownWithContext"
              /\ \E ok \in BOOLEAN :
                    calls' = Append(calls, AppCall("ShutdownWithContext", "", ok))
              /\ stack' = [stack EXCEPT !["t1"] = Pop(@)]
              /\ UNCHANGED <<pstate, services, subscribers, sortedPlugins>>
    /\ UNCHANGED <<plugins, op, err, result, registers, arrays, mu, pubs,
                   subscribes>>

\* Whether the log shows a call c to have been made.
Made(log, c) == \E i \in 1..Len(log) : log[i].call = c

\* The next statement of the goroutine Run starts: it publishes
\* server.started and calls ListenAndServe, which serves until the server
\* is shut down, or fails, and then log.Fatalf ends the process.
ServeStep ==
    /\ stack["t2"] # <<>>
    /\ Top(stack["t2"]).f = "serve"
    /\ LET fr == Top(stack["t2"])
       IN  \/ /\ fr.pc = "Publish"
              /\ \E r \in PublishRuns("server.started") :
                    calls' = Append(calls, AppCall("Publish", "server.started",
                                                   r.err = Nil))
              /\ stack' = [stack EXCEPT !["t2"] = <<AppFrame("serve", "ListenAndServe")>>]
              /\ UNCHANGED err
           \/ /\ fr.pc = "ListenAndServe"
              /\ \/ /\ calls' = Append(calls, AppCall("ListenAndServe", "", TRUE))
                    /\ stack' = [stack EXCEPT !["t2"] = <<AppFrame("serve", "serving")>>]
                    /\ UNCHANGED err
                 \/ /\ calls' = Append(calls, AppCall("ListenAndServe", "", FALSE))
                    /\ stack' = [t \in Threads |-> <<>>]
                    /\ err' = Exited
           \/ /\ fr.pc = "serving"
              /\ Made(calls, "ShutdownWithContext")
              /\ stack' = [stack EXCEPT !["t2"] = <<>>]
              /\ UNCHANGED <<calls, err>>
    /\ UNCHANGED <<plugins, pstate, services, subscribers, op, sortedPlugins,
                   result, registers, arrays, mu, pubs, subscribes>>

NextApp ==
    AddPlugin \/ AppSubscribe \/ CallRun \/ RunStep \/ WaitStep \/ ServeStep

SpecApp == Init /\ [][NextApp]_vars

\* The entries of the log of Run that are calls of c.
MadeAt(log, c) == {i \in 1..Len(log) : log[i].call = c}

\* C27: Run serves no traffic after a plugin failure: when InitializePlugins
\* returns an error, Run returns an error without calling StartPlugins,
\* publishing app.starting or starting the HTTP server; when StartPlugins
\* returns an error, Run returns an error without publishing app.starting
\* or starting the HTTP server.
C27_NoTrafficAfterPluginFailure ==
    op = <<"Run">> =>
        \A i \in MadeAt(calls, "InitializePlugins") \cup MadeAt(calls, "StartPlugins") :
            ~calls[i].ok =>
                /\ stack = [t \in Threads |-> <<>>]
                /\ err = IF calls[i].call = "InitializePlugins"
                         THEN InitializeFailed(err[2]) ELSE StartFailed(err[2])
                /\ err[2] # Nil
                /\ calls[i].call = "InitializePlugins" => ~Made(calls, "StartPlugins")
                /\ ~Made(calls, "Publish")
                /\ ~Made(calls, "ListenAndServe")
                /\ i = Len(calls)

\* Run returned the error of StartPlugins, which had started one of two
\* plugins: nothing was published and no server was started.
C27_Witness ==
    /\ op = <<"Run">>
    /\ Len(calls) = 3
    /\ calls[3] = AppCall("StartPlugins", "", FALSE)
    /\ err[1] = "failed to start plugins"
    /\ Len(sortedPlugins) = 2
    /\ pstate[sortedPlugins[1].name] = StateRunning
    /\ pstate[sortedPlugins[2].name] = StateInitialized
    /\ HandlersOf(subscribers, "app.starting") # <<>>

\* The main thread is in waitForShutdown, about to run the statement pc.
WaitingAt(pc) ==
    /\ stack["t1"] # <<>>
    /\ Top(stack["t1"]) = AppFrame("waitForShutdown", pc)

\* The steps of waitForShutdown after the signal, in order.
ShutdownSteps ==
    <<"signal", "Publish", "StopPlugins", "ShutdownWithContext">>

\* The entries of the log from the shutdown signal on.
SinceSignal ==
    IF Made(calls, "signal")
    THEN SubSeq(calls, Last(MadeAt(calls, "signal")), Len(calls))
    ELSE <<>>

\* The calls of the main thread among them.
ShutdownLog ==
    SelectSeq(SinceSignal, LAMBDA c : c.event \in {"", "app.stopping"}
                                       /\ c.call # "ListenAndServe")

\* C28: on shutdown the remaining steps always proceed: after the shutdown
\* signal waitForShutdown publishes app.stopping, then calls StopPlugins,
\* then invokes the shutdown of the HTTP server, in this order and each
\* whatever the one before returned: as long as the process has not exited,
\* the main thread has made a prefix of these calls and is about to make
\* the next one, the server shutdown after StopPlugins included.
C28_ShutdownProceeds ==
    (op = <<"Run">> /\ Made(calls, "signal") /\ err # Exited) =>
        /\ Len(ShutdownLog) <= Len(ShutdownSteps)
        /\ \A i \in 1..Len(ShutdownLog) : ShutdownLog[i].call = ShutdownSteps[i]
        /\ Len(ShutdownLog) < Len(ShutdownSteps) =>
               WaitingAt(ShutdownSteps[Len(ShutdownLog) + 1])

\* The server shutdown has been invoked after an app.stopping handler and
\* then StopPlugins had both returned an error.
C28_Witness ==
    /\ op = <<"Run">>
    /\ Len(ShutdownLog) = 4
    /\ ShutdownLog[2] = AppCall("Publish", "app.stopping", FALSE)
    /\ ShutdownLog[3] = AppCall("StopPlugins", "", FALSE)
    /\ ShutdownLog[4].call = "ShutdownWithContext"

(***************************************************************************)
(* Properties of the registry under overwriting (SpecSort).                *)
(***************************************************************************)
\* The number of places the slice s holds the plugin instance p at.
Occurrences(s, p) == Cardinality({i \in 1..Len(s) : s[i] = p})

\* C29: RegisterPlugin of a name that is registered, the dependencies being
\* present, replaces the stored plugin: afterwards GetPlugin(name) returns
\* the new instance, the registry has as many entries as before and holds
\* the old instance no more, and a getSortedPlugins call returns a slice of
\* as many entries as the registry that holds each registered instance
\* once: the new instance once, the old one nowhere.
C29_RegisterReplaces ==
    [][/\ (op'[1] = "RegisterPlugin" /\ err' = Nil
                                     /\ op'[2].name \in DOMAIN plugins) =>
             LET p == op'[2]
                 old == plugins[p.name]
             IN  /\ GetPlugin(plugins', p.name) = <<p, TRUE>>
                 /\ Cardinality(DOMAIN plugins') = Cardinality(DOMAIN plugins)
                 /\ old # p => \A n \in DOMAIN plugins' : plugins'[n] # old
       /\ op'[1] = "getSortedPlugins" =>
             /\ Len(sortedPlugins') = Cardinality(DOMAIN plugins')
             /\ \A i \in 1..Len(sortedPlugins') :
                   /\ GetPlugin(plugins', sortedPlugins'[i].name) =
                          <<sortedPlugins'[i], TRUE>>
                   /\ Occurrences(sortedPlugins', sortedPlugins'[i]) = 1]_vars

\* b was registered again, now depending on c, which depends on b (c could
\* only be registered after b, so a plugin was replaced), and
\* getSortedPlugins returned the two instances registered now.
C29_Witness ==
    /\ DOMAIN plugins = {"b", "c"}
    /\ plugins["b"].deps = <<"c">>
    /\ plugins["c"].deps = <<"b">>
    /\ op[1] = "getSortedPlugins"
    /\ Len(sortedPlugins) = 2

(***************************************************************************)
(* The registry under RegisterPlugin calls alone (SpecRegistry): plugins   *)
(* of any Dependencies, their own name included, at one priority.          *)
(***************************************************************************)
AnyPlugins ==
    [name : Names, priority : {PriorityNormal}, deps : DistinctSeqs(Names, MaxDeps)]

RegisterAny == \E p \in AnyPlugins : RegisterPlugin(p)

NextRegistry == RegisterAny

SpecRegistry == Init /\ [][NextRegistry]_vars

\* C30: dependency closure is an invariant of the registry: whatever
\* RegisterPlugin calls were made, successful, failed or overwriting, every
\* name in the Dependencies of every registered plugin is a key of the
\* registry.
C30_DependencyClosure ==
    \A n \in DOMAIN plugins :
        \A d \in 1..Len(plugins[n].deps) : plugins[n].deps[d] \in DOMAIN plugins

\* a was registered again, now depending on itself, b depends on a, and the
\* RegisterPlugin of a plugin depending on the unregistered c has failed.
C30_Witness ==
    /\ DOMAIN plugins = {"a", "b"}
    /\ plugins["a"].deps = <<"a">>
    /\ plugins["b"].deps = <<"a">>
    /\ op[1] = "RegisterPlugin"
    /\ op[2].deps = <<"c">>
    /\ err # Nil

(***************************************************************************)
(* The order the lifecycle loads plugins in (Spec).                        *)
(***************************************************************************)
\* Entries of the log before position i where step succeeded on plugin n.
DoneBefore(log, i, step, n) ==
    {j \in 1..(i - 1) : log[j].call = step /\ log[j].plugin = n /\ log[j].ok}

\* C32: the order InitializePlugins and StartPlugins use is a topological
\* order of the dependency relation: Initialize (Start) is called on a
\* registered plugin only after it succeeded, in the same run, on every
\* plugin named in its Dependencies, whatever the priorities of the two.
C32_LoadOrderTopological ==
    op \in {<<"InitializePlugins">>, <<"StartPlugins">>} =>
        \A i \in 1..Len(calls) :
            calls[i].call \in {"Initialize", "Start"} =>
                \A d \in 1..Len(plugins[calls[i].plugin].deps) :
                    DoneBefore(calls, i, calls[i].call,
                               plugins[calls[i].plugin].deps[d]) # {}

\* C36: the Manager drives each plugin only through legal lifecycle steps:
\* StartPlugins calls Start only on a plugin whose Initialize has succeeded
\* (one that is not Uninitialized when the call begins), and StopPlugins
\* calls Stop only on a plugin whose Start has succeeded and that was not
\* stopped since (one that is neither Uninitialized nor Stopped).
C36_OnlyLegalSteps ==
    [][/\ op' = <<"StartPlugins">> =>
              \A i \in 1..Len(calls') :
                  calls'[i].call = "Start" =>
                      pstate[calls'[i].plugin] # StateUninitialized
       /\ op' = <<"StopPlugins">> =>
              \A i \in 1..Len(calls') :
                  calls'[i].call = "Stop" =>
                      pstate[calls'[i].plugin] \notin
                          {StateUninitialized, StateStopped}]_vars

(***************************************************************************)
(* The dependency relation over the registry (SpecRegistry).               *)
(***************************************************************************)
\* Names the registered plugins of the set S name in their Dependencies.
DepsOf(reg, S) ==
    {reg[n].deps[d] : <<n, d>> \in
        {<<n, d>> \in (S \cap DOMAIN reg) \X (1..MaxDeps) : d <= Len(reg[n].deps)}}

\* Names reached from the set S by following one to k dependencies.
RECURSIVE DepsWithin(_, _, _)
DepsWithin(reg, S, k) ==
    IF k = 0 THEN {}
    ELSE DepsOf(reg, S) \cup DepsWithin(reg, DepsOf(reg, S), k - 1)

\* C37: the dependency relation over the registered plugins is acyclic in
\* every reachable state: after any sequence of RegisterPlugin calls,
\* re-registrations included, no registered plugin depends on itself
\* directly or transitively.
C37_DependenciesAcyclic ==
    \A n \in DOMAIN plugins :
        n \notin DepsWithin(plugins, {n}, Cardinality(DOMAIN plugins))

(***************************************************************************)
(* The plugin events of StartPlugins and StopPlugins (SpecReload).         *)
(***************************************************************************)
\* The steps of a phase a plugin has: the hooks only when it is hooked.
StepsOf(n, before, main, after) ==
    IF n \in HookedPlugins THEN {before, main, after} ELSE {main}

\* The log holds one Publish of event e per plugin of the sequence order, in
\* that order, each carrying the plugin's name, made after every step of
\* the phase succeeded on that plugin and before any step on a plugin that
\* comes later in order.
PublishedInOrder(log, order, e, before, main, after) ==
    /\ CalledOn(log, "Publish") = order
    /\ \A i \in 1..Len(log) : log[i].call = "Publish" => log[i].event = e
    /\ \A k \in 1..Len(order) :
           LET pub == CHOOSE i \in 1..Len(log) :
                          log[i].call = "Publish" /\ log[i].plugin = order[k]
               steps == CallsOn(log, order[k], {before, main, after})
           IN  /\ {log[j].call : j \in steps} = StepsOf(order[k], before, main, after)
               /\ Cardinality(steps) = Cardinality(StepsOf(order[k], before, main, after))
               /\ \A j \in steps : j < pub /\ log[j].ok
               /\ \A m \in (k + 1)..Len(order) :
                      \A j \in CallsOn(log, order[m], {before, main, after}) : pub < j

\* The names of the plugins of the slice s, in order.
NamesOf(s) == [i \in 1..Len(s) |-> s[i].name]

\* C34: a successful StartPlugins over n registered plugins publishes
\* exactly n plugin.started events, one per plugin, carrying its name, in
\* installation order, the event of a plugin after its OnBeforeStart, Start
\* and OnAfterStart succeeded and before the OnBeforeStart of the next
\* plugin; a successful StopPlugins publishes one plugin.stopped per plugin
\* after its OnBeforeStop, Stop and OnAfterStop, in reverse installation
\* order.
C34_PluginEventsInOrder ==
    /\ (op = <<"StartPlugins">> /\ err = Nil) =>
           PublishedInOrder(calls, NamesOf(sortedPlugins), "plugin.started",
                            "OnBeforeStart", "Start", "OnAfterStart")
    /\ (op = <<"StopPlugins">> /\ err = Nil) =>
           PublishedInOrder(calls, Reverse(NamesOf(sortedPlugins)), "plugin.stopped",
                            "OnBeforeStop", "Stop", "OnAfterStop")

\* A successful StopPlugins over two hooked plugins, one of its
\* plugin.stopped events reaching a subscribed handler.
C34_Witness ==
    /\ op = <<"StopPlugins">>
    /\ err = Nil
    /\ Len(sortedPlugins) = 2
    /\ Len(CalledOn(calls, "Publish")) = 2
    /\ \E i \in 1..Len(calls) : calls[i].call = "handler"

(***************************************************************************)
(* What Run leaves behind when it gives up (SpecApp).                      *)
(***************************************************************************)
\* C39: no started plugin is left running when the application gives up:
\* whenever Run returns an error because StartPlugins failed at some
\* plugin, every plugin whose Start had succeeded (it is Running) has had
\* Stop called on it, by a StopPlugins call of Run, before Run returns.
C39_StartedPluginsStopped ==
    (/\ op = <<"Run">>
     /\ stack["t1"] = <<>>
     /\ err[1] = "failed to start plugins") =>
        \A n \in DOMAIN pstate :
            pstate[n] = StateRunning => Made(calls, "StopPlugins")

(***************************************************************************)
(* Repeated initialization (SpecResubscribe): InitializePlugins called     *)
(* again and again on a registry of the plugins that subscribe handlers.   *)
(***************************************************************************)
\* Longest handler list of an event name repeated initializations grow the
\* bus to.
MaxResubscribed == 2

\* The plugin types implementing EventSubscriber are registered.
RegisterSubscriber ==
    \E p \in {q \in LifecyclePlugins : q.name \in DOMAIN GetEventSubscriptions} :
        RegisterPlugin(p)

\* InitializePlugins, on a bus that already holds handlers or not.
InitializeRepeated ==
    \E sorted \in SortedOrders :
      \E r \in {InitializeLoop(Entry, sorted, 1, F) :
                  F \in FaultSets({"Initialize"}, {"OnBeforeInit", "OnAfterInit"},
                                  {"ValidateConfig"}, "")} :
            /\ \A e \in DOMAIN r.subscribers : Len(r.subscribers[e]) <= MaxResubscribed
            /\ Commit("InitializePlugins", sorted, r)

NextResubscribe == RegisterSubscriber \/ InitializeRepeated

SpecResubscribe == Init /\ [][NextResubscribe]_vars

\* One Publish of each event a registered EventSubscriber plugin subscribes
\* to, no handler failing, invokes that plugin's handler exactly once when
\* the bus holds the handler lists subs.
InvokedOnce(subs) ==
    \A n \in DOMAIN plugins \cap DOMAIN GetEventSubscriptions :
        \A e \in GetEventSubscriptions[n] :
            LET r == Publish([Entry EXCEPT !.subscribers = subs], e, "", {})
            IN  Cardinality({i \in 1..Len(r.calls) :
                                r.calls[i] = Logged(HandlerCall(<<n, e>>), TRUE)}) = 1

\* C38: InitializePlugins is idempotent with respect to event
\* subscriptions: a successful InitializePlugins on a bus without handlers
\* (the first), or following a successful InitializePlugins after which a
\* Publish invoked each subscriber's handler exactly once (a repeated one),
\* leaves a bus on which one Publish of an event invokes each
\* EventSubscriber plugin's handler for that event exactly once.
C38_InitializeIdempotent ==
    [][(/\ op' = <<"InitializePlugins">>
        /\ err' = Nil
        /\ \/ \A e \in DOMAIN subscribers : subscribers[e] = <<>>
           \/ /\ op = <<"InitializePlugins">>
              /\ err = Nil
              /\ InvokedOnce(subscribers))
       => InvokedOnce(subscribers')]_vars

(***************************************************************************)
(* InitializePlugins statement by statement (SpecSteps): the main thread   *)
(* runs the loop one call at a time; its frame holds the sorted slice, the *)
(* position in it and the configs argument, and calls logs every call made *)
(* with its argument.                                                      *)
(***************************************************************************)
\* make(map[string]interface{})
EmptyMap == [k \in {} |-> k]

\* The configs arguments the callers pass: a config for some of the names.
ConfigArgs ==
    UNION {[S -> Configs] : S \in SUBSET {"a", "b"}}

\* config := configs[metadata.Name]; if config == nil { config = make(...) }
ResolveConfig(configs, n) ==
    IF n \in DOMAIN configs THEN configs[n] ELSE EmptyMap

\* A call of the loop body as logged, with its argument and its outcome.
StepCall(step, n, arg, ok) == [call |-> step, plugin |-> n, arg |-> arg, ok |-> ok]

\* A loop body that registers the services before it calls Initialize.
AfterStepRegisteringFirst(pc) ==
    CASE pc = "ValidateConfig" -> "OnBeforeInit"
      [] pc = "OnBeforeInit" -> "Register"
      [] pc = "Register" -> "Initialize"
      [] pc = "Initialize" -> "Subscribe"
      [] pc = "Subscribe" -> "OnAfterInit"
      [] pc = "OnAfterInit" -> "next"

\* The statement of the loop body that follows the statement pc.
AfterStep(pc) ==
    CASE pc = "ValidateConfig" -> "OnBeforeInit"
      [] pc = "OnBeforeInit" -> "Initialize"
      [] pc = "Initialize" -> "Register"
      [] pc = "Register" -> "Subscribe"
      [] pc = "Subscribe" -> "OnAfterInit"
      [] pc = "OnAfterInit" -> "next"

\* Whether the plugin named n has the statement pc: the type assertion of
\* the optional capability succeeds.
HasStep(n, pc) ==
    CASE pc = "ValidateConfig" -> n \in ConfigurablePlugins
      [] pc \in {"OnBeforeInit", "OnAfterInit"} -> n \in HookedPlugins
      [] pc = "Initialize" -> TRUE
      [] pc = "Register" -> n \in DOMAIN GetServices
      [] pc = "Subscribe" -> n \in DOMAIN GetEventSubscriptions

\* The phase the error of the statement pc is wrapped with.
PhaseOf(pc) ==
    CASE pc = "ValidateConfig" -> "config validation"
      [] pc = "Initialize" -> "initialization"
      [] OTHER -> pc

\* RegisterPlugin between two InitializePlugins calls.
RegisterIdle ==
    /\ stack["t1"] = <<>>
    /\ RegisterLifecycle

\* The main thread calls InitializePlugins(configs): getSortedPlugins.
CallInitializePlugins ==
    /\ stack["t1"] = <<>>
    /\ \A e \in DOMAIN subscribers : Len(subscribers[e]) < MaxHandlers
    /\ \E sorted \in SortedOrders, configs \in ConfigArgs :
          /\ stack' = [stack EXCEPT !["t1"] =
                          <<[f |-> "InitializePlugins", pc |-> "ValidateConfig",
                             sorted |-> sorted, i |-> 1, configs |-> configs]>>]
          /\ sortedPlugins' = sorted
          /\ op' = <<"InitializePlugins", configs>>
    /\ calls' = <<>>
    /\ err' = Nil
    /\ result' = <<>>
    /\ UNCHANGED <<plugins, pstate, services, subscribers, registers, arrays,
                   mu, pubs, subscribes>>

\* The next statement of InitializePlugins.
InitializeStep ==
    /\ stack["t1"] # <<>>
    /\ Top(stack["t1"]).f = "InitializePlugins"
    /\ LET fr == Top(stack["t1"])
           goto(pc) ==
               [stack EXCEPT !["t1"] =
                   <<IF pc = "next"
                     THEN [fr EXCEPT !.i = @ + 1, !.pc = "ValidateConfig"]
                     ELSE [fr EXCEPT !.pc = pc]>>]
       IN  IF fr.i > Len(fr.sorted)
           THEN \* return nil
                /\ stack' = [stack EXCEPT !["t1"] = <<>>]
                /\ err' = Nil
                /\ UNCHANGED <<pstate, services, subscribers, calls>>
           ELSE LET n == fr.sorted[fr.i].name
                    config == ResolveConfig(fr.configs, n)
                    made(arg, ok) == Append(calls, StepCall(fr.pc, n, arg, ok))
                    returns(arg) ==
                        /\ calls' = made(arg, FALSE)
                        /\ err' = Wrap(PhaseOf(fr.pc), n, ErrorOf(PluginCall(fr.pc, n)))
                        /\ stack' = [stack EXCEPT !["t1"] = <<>>]
                    goes(arg) ==
                        /\ calls' = made(arg, TRUE)
                        /\ err' = Nil
                        /\ stack' = goto(AfterStep(fr.pc))
                IN  IF ~HasStep(n, fr.pc)
                    THEN /\ stack' = goto(AfterStep(fr.pc))
                         /\ UNCHANGED <<pstate, services, subscribers, calls, err>>
                    ELSE CASE fr.pc = "ValidateConfig" ->
                                /\ goes(config) \/ returns(config)
                                /\ UNCHANGED <<pstate, services, subscribers>>
                           [] fr.pc \in {"OnBeforeInit", "OnAfterInit"} ->
                                /\ goes("context.Background()")
                                      \/ returns("context.Background()")
                                /\ UNCHANGED <<pstate, services, subscribers>>
                           [] fr.pc = "Initialize" ->
                                \/ /\ goes(config)
                                   /\ pstate' = [pstate EXCEPT ![n] = StateInitialized]
                                   /\ UNCHANGED <<services, subscribers>>
                                \/ /\ returns(config)
                                   /\ UNCHANGED <<pstate, services, subscribers>>
                           [] fr.pc = "Register" ->
                                /\ goes(GetServices[n])
                                /\ services' = ContainerRegisterAll(services, GetServices[n])
                                /\ UNCHANGED <<pstate, subscribers>>
                           [] fr.pc = "Subscribe" ->
                                /\ goes(GetEventSubscriptions[n])
                                /\ subscribers' =
                                       SubscribeAll(subscribers, n, GetEventSubscriptions[n])
                                /\ UNCHANGED <<pstate, services>>
    /\ UNCHANGED <<plugins, op, sortedPlugins, result, registers, arrays, mu,
                   pubs, subscribes>>

NextSteps == RegisterIdle \/ CallInitializePlugins \/ InitializeStep

SpecSteps == Init /\ [][NextSteps]_vars

\* The calls the loop body makes for the plugin named n, in the order of
\* the claim, with the config the first of them is given.
BodyOf(n, configs) ==
    SelectSeq(<<"ValidateConfig", "OnBeforeInit", "Initialize", "Register",
                "Subscribe", "OnAfterInit">>,
              LAMBDA step :
                  \/ step = "ValidateConfig" /\ n \in ConfigurablePlugins
                  \/ step \in {"OnBeforeInit", "OnAfterInit"} /\ n \in HookedPlugins
                  \/ step = "Initialize"
                  \/ step = "Register" /\ n \in DOMAIN GetServices
                  \/ step = "Subscribe" /\ n \in DOMAIN GetEventSubscriptions)

\* The calls a complete run over the plugins named by order makes: all of
\* one plugin before the first of the next.
RECURSIVE ExpectedSteps(_, _)
ExpectedSteps(order, configs) ==
    IF order = <<>> THEN <<>>
    ELSE [i \in 1..Len(BodyOf(Head(order), configs)) |->
             <<BodyOf(Head(order), configs)[i], Head(order)>>]
         \o ExpectedSteps(Tail(order), configs)

\* C33: for each plugin processed by InitializePlugins the steps run in a
\* fixed order, each only after the one before succeeded: ValidateConfig
\* (if Configurable) with the plugin's config, or an empty map when configs
\* has no entry for its name, OnBeforeInit (if hooked), Initialize, the
\* registration of the exported services, the subscription of the event
\* handlers, OnAfterInit (if hooked); and all steps of one plugin are made
\* before the first step of the next plugin of the sorted order. At every
\* point of a call the log is a prefix of that sequence, a failed step is
\* the last one, with the call returning an error, and a call that returns
\* nil has made them all.
C33_InitializeStepOrder ==
    op[1] = "InitializePlugins" =>
        LET expected == ExpectedSteps(NamesOf(sortedPlugins), op[2])
        IN  /\ Len(calls) <= Len(expected)
            /\ \A k \in 1..Len(calls) :
                  /\ <<calls[k].call, calls[k].plugin>> = expected[k]
                  /\ calls[k].call \in {"ValidateConfig", "Initialize"} =>
                         calls[k].arg =
                            IF calls[k].plugin \in DOMAIN op[2]
                            THEN op[2][calls[k].plugin]
                            ELSE [x \in {} |-> x]
                  /\ k < Len(calls) => calls[k].ok
                  /\ ~calls[k].ok => stack["t1"] = <<>> /\ err # Nil
            /\ (stack["t1"] = <<>> /\ err = Nil) => Len(calls) = Len(expected)

\* A call over three plugins returned nil having validated the config of the
\* Configurable plugin a, for which configs had no entry, with an empty map.
C33_Witness ==
    /\ op[1] = "InitializePlugins"
    /\ stack["t1"] = <<>>
    /\ err = Nil
    /\ Len(sortedPlugins) = 3
    /\ "a" \notin DOMAIN op[2]
    /\ "b" \in DOMAIN op[2]
    /\ \E k \in 1..Len(calls) :
          /\ calls[k].call = "ValidateConfig"
          /\ calls[k].arg = EmptyMap
          /\ calls[k].ok

(***************************************************************************)
(* The Event Bus with hierarchical event names (SpecEvents): callers       *)
(* subscribe handlers under a name and under the name one level below it,  *)
(* and publish either name with data.                                      *)
(***************************************************************************)
\* The event names the callers use.
EventNames == {"plugin", "plugin.started"}

\* eventBus.Subscribe(e, handler): the handler of caller n for the name e.
SubscribeEvent ==
    /\ \E e \in EventNames, n \in {"h1", "h2"} :
          /\ subscribers' = SubscribeAll(subscribers, n, {e})
          /\ \A x \in DOMAIN subscribers' : Len(subscribers'[x]) <= MaxSubscribes
          /\ op' = <<"Subscribe", e, n>>
    /\ err' = Nil
    /\ calls' = <<>>
    /\ result' = <<>>
    /\ UNCHANGED <<plugins, pstate, services, sortedPlugins, registers, busVars>>

\* The handler loop of Publish over the snapshot handlers, each handler
\* logged with the Event it is called with; F: the handlers that fail.
RECURSIVE Deliver(_, _, _, _, _)
Deliver(handlers, i, event, F, log) ==
    IF i > Len(handlers) THEN [calls |-> log, err |-> Nil]
    ELSE IF handlers[i] \in F
         THEN [calls |-> Append(log, [handler |-> handlers[i], event |-> event,
                                      ok |-> FALSE]),
               err |-> <<"event handler error for", event.Name,
                         ErrorOf(HandlerCall(handlers[i]))>>]
         ELSE Deliver(handlers, i + 1, event, F,
                      Append(log, [handler |-> handlers[i], event |-> event,
                                   ok |-> TRUE]))

\* eventBus.Publish(ctx, e, data).
PublishEvent ==
    /\ \E e \in EventNames, data \in {[plugin |-> "a"], [plugin |-> "b"]} :
          LET handlers == HandlersOf(subscribers, e)
              event == [Name |-> e, Data |-> data]
          IN  \E F \in SubsetsUpTo({handlers[i] : i \in 1..Len(handlers)}, MaxFaults) :
                  /\ calls' = Deliver(handlers, 1, event, F, <<>>).calls
                  /\ err' = Deliver(handlers, 1, event, F, <<>>).err
                  /\ op' = <<"Publish", e, data>>
    /\ result' = <<>>
    /\ UNCHANGED <<plugins, pstate, services, subscribers, sortedPlugins,
                   registers, busVars>>

NextEvents == SubscribeEvent \/ PublishEvent

SpecEvents == Init /\ [][NextEvents]_vars

\* C40: event names are matched exactly: Publish(ctx, e, data) invokes, in
\* order, the handlers subscribed under the identical name e (all of them
\* when it returns nil) and never a handler subscribed under another name,
\* "plugin" and "plugin.started" being unrelated; with no subscriber for e
\* it invokes nothing and returns nil; and each handler receives an Event
\* whose Name is e and whose Data is the map passed to Publish.
C40_ExactEventNames ==
    op[1] = "Publish" =>
        LET subscribed == IF op[2] \in DOMAIN subscribers
                          THEN subscribers[op[2]] ELSE <<>>
        IN  /\ Len(calls) <= Len(subscribed)
            /\ \A k \in 1..Len(calls) :
                  /\ calls[k].handler = subscribed[k]
                  /\ calls[k].handler[2] = op[2]
                  /\ calls[k].event.Name = op[2]
                  /\ calls[k].event.Data = op[3]
            /\ err = Nil => Len(calls) = Len(subscribed)
            /\ subscribed = <<>> => (calls = <<>> /\ err = Nil)

\* plugin.started was published and reached its handler, a handler being
\* subscribed under plugin too.
C40_Witness ==
    /\ op[1] = "Publish"
    /\ op[2] = "plugin.started"
    /\ "plugin" \in DOMAIN subscribers
    /\ subscribers["plugin"] # <<>>
    /\ Len(calls) = 1
    /\ err = Nil

(***************************************************************************)
(* The Manager shared by threads (SpecManager): the threads call           *)
(* RegisterPlugin, GetPlugin and getSortedPlugins (as InitializePlugins,   *)
(* StartPlugins, StopPlugins and GetMiddleware do first) one statement at  *)
(* a time; mu is PluginManager.mu here and registers the RegisterPlugin    *)
(* calls made so far, each <<plugin, whether it has returned>>.            *)
(***************************************************************************)
\* Most RegisterPlugin calls the threads make in all.
MaxRegisterCalls == 2

\* The plugins the threads register: no dependencies, one priority.
ConcurrentPlugins ==
    {p \in PluginUniverse : p.deps = <<>> /\ p.priority = PriorityNormal}

\* The frame of a call on the Manager: p the plugin of a RegisterPlugin,
\* name the argument of a GetPlugin, id the index of a RegisterPlugin in
\* registers, before the RegisterPlugin calls that had returned when the
\* call was made, m the map as the dependency check of RegisterPlugin read
\* it, found and val what GetPlugin read, seen the keys the range loop of
\* getSortedPlugins has visited and slice the plugins it has appended.
ManagerFrame(f, p, name, pc, id) ==
    [f |-> f, p |-> p, name |-> name, pc |-> pc, id |-> id,
     before |-> {k \in 1..Len(registers) : registers[k][2]},
     m |-> NewPluginManager, found |-> FALSE, val |-> Nil,
     seen |-> {}, slice |-> <<>>]

\* A thread outside the Manager calls RegisterPlugin with a plugin of a
\* name no other call registers: the calls take the names in turn.
CallRegisterPlugin(t) ==
    /\ stack[t] = <<>>
    /\ Len(registers) < MaxRegisterCalls
    /\ Len(registers) < Cardinality(Names)
    /\ \E p \in ConcurrentPlugins :
          /\ p.name = <<"a", "b", "c">>[Len(registers) + 1]
          /\ stack' = [stack EXCEPT ![t] =
                <<ManagerFrame("RegisterPlugin", p, p.name, "Lock",
                               Len(registers) + 1)>>]
          /\ registers' = Append(registers, <<p, FALSE>>)
    /\ UNCHANGED <<plugins, pstate, services, subscribers, op, err,
                   sortedPlugins, calls, result, arrays, mu, pubs, subscribes>>

\* A thread outside the Manager calls GetPlugin with the name of a plugin
\* some thread registers.
CallGetPlugin(t) ==
    /\ stack[t] = <<>>
    /\ \E k \in 1..Len(registers) :
          stack' = [stack EXCEPT ![t] =
                <<ManagerFrame("GetPlugin", Nil, registers[k][1].name, "RLock", 0)>>]
    /\ UNCHANGED <<plugins, pstate, services, subscribers, op, err,
                   sortedPlugins, calls, result, registers, arrays, mu, pubs,
                   subscribes>>

\* A thread outside the Manager calls getSortedPlugins, which takes no lock.
CallGetSortedPlugins(t) ==
    /\ stack[t] = <<>>
    /\ stack' = [stack EXCEPT ![t] =
          <<ManagerFrame("getSortedPlugins", Nil, "", "range", 0)>>]
    /\ UNCHANGED <<plugins, pstate, services, subscribers, op, err,
                   sortedPlugins, calls, result, registers, arrays, mu, pubs,
                   subscribes>>

\* The next statement of the RegisterPlugin call thread t is in: Lock();
\* the dependency check; pm.plugins[metadata.Name] = plugin; Unlock().
RegisterPluginStep(t) ==
    /\ stack[t] # <<>>
    /\ Top(stack[t]).f = "RegisterPlugin"
    /\ LET fr == Top(stack[t])
           set(g) == [stack EXCEPT ![t] = SetTop(@, g)]
           returns(e) ==
               /\ mu' = [mu EXCEPT !.w = ""]
               /\ stack' = [stack EXCEPT ![t] = <<>>]
               /\ registers' = [registers EXCEPT ![fr.id][2] = TRUE]
               /\ op' = <<"RegisterPlugin", fr.p>>
               /\ err' = e
       IN  \/ /\ fr.pc = "Lock"
              /\ WriterFree(mu)
              /\ mu' = [mu EXCEPT !.w = t]
              /\ stack' = set([fr EXCEPT !.pc = "wait"])
              /\ UNCHANGED <<plugins, pstate, registers, op, err>>
           \/ /\ fr.pc = "wait"
              /\ NoReaders(mu)
              /\ stack' = set([fr EXCEPT !.pc = "check"])
              /\ UNCHANGED <<plugins, pstate, mu, registers, op, err>>
           \/ /\ fr.pc = "check"
              /\ IF MissingDeps(plugins, fr.p) # {}
                 THEN /\ returns(MissingDependency(FirstMissing(plugins, fr.p),
                                                   fr.p.name))
                      /\ UNCHANGED <<plugins, pstate>>
                 ELSE /\ stack' = set([fr EXCEPT !.pc = "store", !.m = plugins])
                      /\ UNCHANGED <<plugins, pstate, mu, registers, op, err>>
           \/ /\ fr.pc = "store"
              /\ plugins' = Put(fr.m, fr.p)
              /\ pstate' = [n \in DOMAIN plugins' |->
                               IF n \in DOMAIN pstate /\ n # fr.p.name
                               THEN pstate[n] ELSE StateUninitialized]
              /\ stack' = set([fr EXCEPT !.pc = "Unlock"])
              /\ UNCHANGED <<mu, registers, op, err>>
           \/ /\ fr.pc = "Unlock"
              /\ returns(Nil)
              /\ UNCHANGED <<plugins, pstate>>
    /\ UNCHANGED <<services, subscribers, sortedPlugins, calls, result, arrays,
                   pubs, subscribes>>

\* The next statement of the GetPlugin call thread t is in: RLock();
\* plugin, exists := pm.plugins[name]; RUnlock(); return.
GetPluginStep(t) ==
    /\ stack[t] # <<>>
    /\ Top(stack[t]).f = "GetPlugin"
    /\ LET fr == Top(stack[t])
           set(g) == [stack EXCEPT ![t] = SetTop(@, g)]
       IN  \/ /\ fr.pc = "RLock"
              /\ CanRLock(mu)
              /\ mu' = RLock(mu, t)
              /\ stack' = set([fr EXCEPT !.pc = "read"])
              /\ UNCHANGED <<op, result, err>>
           \/ /\ fr.pc = "read"
              /\ stack' = set([fr EXCEPT !.pc = "RUnlock",
                                         !.val = GetPlugin(plugins, fr.name)[1],
                                         !.found = GetPlugin(plugins, fr.name)[2]])
              /\ UNCHANGED <<mu, op, result, err>>
           \/ /\ fr.pc = "RUnlock"
              /\ mu' = RUnlock(mu, t)
              /\ stack' = [stack EXCEPT ![t] = <<>>]
              /\ op' = <<"GetPlugin", fr.name>>
              /\ result' = <<fr.val, fr.found>>
              /\ err' = Nil
    /\ UNCHANGED <<plugins, pstate, services, subscribers, sortedPlugins, calls,
                   registers, arrays, pubs, subscribes>>

\* The next statement of the getSortedPlugins call thread t is in: one more
\* turn of the range over pm.plugins, which visits a key it has not visited
\* in no fixed order, or, the loop over, sort.Slice and the return.
SortStep(t) ==
    /\ stack[t] # <<>>
    /\ Top(stack[t]).f = "getSortedPlugins"
    /\ LET fr == Top(stack[t])
           set(g) == [stack EXCEPT ![t] = SetTop(@, g)]
       IN  \/ /\ fr.pc = "range"
              /\ IF DOMAIN plugins \ fr.seen = {}
                 THEN stack' = set([fr EXCEPT !.pc = "sort"])
                 ELSE \E n \in DOMAIN plugins \ fr.seen :
                          stack' = set([fr EXCEPT !.seen = @ \cup {n},
                                                  !.slice = Append(@, plugins[n])])
              /\ UNCHANGED <<op, err, sortedPlugins>>
           \/ /\ fr.pc = "sort"
              /\ sortedPlugins' = SortSlice(fr.slice)
              /\ op' = <<"getSortedPlugins", NamesOf(fr.slice)>>
              /\ err' = Nil
              /\ stack' = [stack EXCEPT ![t] = <<>>]
    /\ UNCHANGED <<plugins, pstate, services, subscribers, calls, result,
                   registers, arrays, mu, pubs, subscribes>>

NextManager ==
    \E t \in Threads :
        \/ CallRegisterPlugin(t) \/ CallGetPlugin(t) \/ CallGetSortedPlugins(t)
        \/ RegisterPluginStep(t) \/ GetPluginStep(t) \/ SortStep(t)

SpecManager == Init /\ [][NextManager]_vars

\* C31: under any interleaving of concurrent RegisterPlugin calls for
\* plugins with distinct names and no dependencies and of concurrent
\* GetPlugin calls, every call terminates (while a thread is inside the
\* Manager some thread inside it can take its next statement, and a call
\* has finitely many), no registration is lost (the registry holds the
\* plugin of every RegisterPlugin that has returned), and a GetPlugin
\* called after the RegisterPlugin of its name returned finds that plugin;
\* a GetPlugin that finds a plugin returns one registered under the name.
C31_ConcurrentRegistration ==
    /\ (\E t \in Threads : stack[t] # <<>>) => \E t \in Threads : Runnable(t)
    /\ \A k \in 1..Len(registers) :
          registers[k][2] =>
              GetPlugin(plugins, registers[k][1].name) = <<registers[k][1], TRUE>>
    /\ \A t \in Threads :
          (stack[t] # <<>> /\ Top(stack[t]).f = "GetPlugin"
                           /\ Top(stack[t]).pc = "RUnlock") =>
              LET fr == Top(stack[t])
              IN  /\ \A k \in fr.before :
                        registers[k][1].name = fr.name =>
                            fr.found /\ fr.val = registers[k][1]
                  /\ fr.found =>
                        \E k \in 1..Len(registers) : registers[k][1] = fr.val
    /\ (op[1] = "GetPlugin" /\ result[2]) =>
          \E k \in 1..Len(registers) :
              registers[k][1] = result[1] /\ result[1].name = op[2]

\* Two RegisterPlugin calls of distinct names have returned, and a GetPlugin
\* called while the second was in flight has read the plugin it stored.
C31_Witness ==
    /\ Len(registers) = 2
    /\ registers[1][2]
    /\ registers[2][2]
    /\ \E t \in Threads :
          /\ stack[t] # <<>>
          /\ Top(stack[t]).f = "GetPlugin"
          /\ Top(stack[t]).pc = "RUnlock"
          /\ Top(stack[t]).before = {1}
          /\ Top(stack[t]).found
          /\ Top(stack[t]).val = registers[2][1]

\* Thread t is inside the range loop of getSortedPlugins: it has visited
\* keys of the registry map and has not left the loop.
Ranging(t) ==
    /\ stack[t] # <<>>
    /\ Top(stack[t]).f = "getSortedPlugins"
    /\ Top(stack[t]).pc = "range"
    /\ Top(stack[t]).seen # {}

\* C35: every access to the plugin registry map is made while holding the
\* Manager's lock: no interleaving exists in which getSortedPlugins runs
\* while a concurrent RegisterPlugin is writing the map, that is, no
\* RegisterPlugin stores into the map while a thread is inside the range
\* loop of getSortedPlugins.
C35_RegistryAccessLocked ==
    [][plugins' # plugins => \A t \in Threads : ~Ranging(t)]_vars

====
